---- MODULE Spec2Model ----
(***************************************************************************)
(* Model of the cache archive engine of turborepo-cache: the restorer      *)
(* (cache_archive/restore*.rs) and the writer (cache_archive/writer.rs)    *)
(* acting on a small POSIX file system.                                    *)
(*                                                                         *)
(* Strings that the code inspects character-wise (on-wire names, link      *)
(* targets) are sequences of their '/'-separated segments: "a/b/" is       *)
(* <<"a","b","">>, "../" is <<"..","">>, "" is <<"">>, "/x" is <<"","x">>. *)
(* Paths that the code handles as std::path::Path are sequences of         *)
(* components (the segments other than "" and ".").  An absolute path is   *)
(* the sequence of its components below the root directory <<>>.           *)
(***************************************************************************)
EXTENDS Integers, Sequences, FiniteSets, TLC

VARIABLES
    fs,         \* the file system: absolute real path -> node
    umask,      \* the process umask (environment)
    archive,    \* the entries of the archive being restored, in order
    pos,        \* restore_entries: index of the next entry of the archive
    symlinks,   \* restore_entries: the deferred symlink entries (Vec symlinks)
    restored,   \* the Vec of restored anchored names
    lookup,     \* topologically_restore_symlinks: header_lookup
    waiting,    \* topologically_restore_symlinks: graph keys not yet visited
    pc,         \* position in CacheReader::restore
    result,     \* "" while running, then "Ok" or the error
    src,        \* CacheArchive: the tree the archive is created from
    todo,       \* CacheArchive: anchored names still to be added
    env,        \* the process environment: TURBO_REMOTE_CACHE_SIGNATURE_KEY
    signer_verifier, \* the team_id of the ArtifactSignatureAuthenticator, if any
    issued,     \* the tag at hand: the one generated last, with what it was made from, or one from elsewhere
    call        \* the last call of the authenticator on the tag at hand, with its result

vars == <<fs, umask, archive, pos, symlinks, restored, lookup, waiting, pc, result, src, todo,
          env, signer_verifier, issued, call>>

\* the state of the archive engine, and the state around it
engine == <<fs, umask, archive, pos, symlinks, restored, lookup, waiting, pc, result, src, todo>>
others == <<env, signer_verifier, issued, call>>

(***************************************************************************)
(* Bounds of the model.                                                    *)
(***************************************************************************)
MaxEntries == 3        \* longest archive drawn by Init
MaxChain == 4          \* longest archive drawn by InitChain
MaxLinkHops == 4       \* symlinks the kernel follows in one lookup before ELOOP
MaxCheckDepth == 4     \* nested check_path calls before the stack is exhausted
MaxSegments == 4       \* most segments of an on-wire name drawn by InitNames
MaxName == 5           \* longest file name of an archive drawn by the actions on archive files

Oct(a, b, c) == a * 64 + b * 8 + c

(***************************************************************************)
(* Strings and paths.                                                      *)
(***************************************************************************)
Last(s) == s[Len(s)]
Front(s) == SubSeq(s, 1, Len(s) - 1)

IsPrefix(p, q) == Len(p) <= Len(q) /\ SubSeq(q, 1, Len(p)) = p

\* std::path::Path::components of a string: "" and "." segments vanish
NotDot(s) == s \notin {"", "."}
Components(str) == SelectSeq(str, NotDot)

\* std::path::Path::is_absolute (unix): the string starts with '/'
IsAbsolute(str) == Len(str) >= 2 /\ str[1] = ""

\* std::path::Path::parent: the path without its final component
Parent(p) == IF p = <<>> THEN <<>> ELSE Front(p)

\* path_clean::clean of an absolute path: ".." removes the component before
\* it and is dropped at the root
RECURSIVE CleanAbsFrom(_, _)
CleanAbsFrom(done, p) ==
    IF p = <<>> THEN done
    ELSE IF Head(p) = ".." THEN CleanAbsFrom(Parent(done), Tail(p))
    ELSE CleanAbsFrom(Append(done, Head(p)), Tail(p))

CleanAbs(p) == CleanAbsFrom(<<>>, p)

\* path_clean::clean of a relative path: a leading ".." stays
RECURSIVE CleanRelFrom(_, _)
CleanRelFrom(done, p) ==
    IF p = <<>> THEN done
    ELSE IF Head(p) = ".." /\ done # <<>> /\ Last(done) # ".."
         THEN CleanRelFrom(Front(done), Tail(p))
    ELSE CleanRelFrom(Append(done, Head(p)), Tail(p))

CleanRel(p) == CleanRelFrom(<<>>, p)

(***************************************************************************)
(* The file system.                                                        *)
(***************************************************************************)
Anchor == <<"w">>
Root == <<>>

Node(kind, mode, owner, body, link) ==
    [kind |-> kind, mode |-> mode, owner |-> owner, body |-> body, link |-> link]

DirNode(mode, owner) == Node("dir", mode, owner, "", <<>>)
FileNode(mode, body) == Node("file", mode, "me", body, <<>>)
LinkNode(target) == Node("link", Oct(7, 7, 7), "me", "", target)

\* mode & !mask on the twelve mode bits
RECURSIVE AndNotBits(_, _, _)
AndNotBits(m, u, k) ==
    IF k = 0 THEN 0
    ELSE 2 * AndNotBits(m \div 2, u \div 2, k - 1)
         + (IF m % 2 = 1 /\ u % 2 = 0 THEN 1 ELSE 0)

AndNot(m, u) == AndNotBits(m, u, 12)

Found(p) == [st |-> "ok", path |-> p, err |-> ""]
Absent(p) == [st |-> "new", path |-> p, err |-> "ENOENT"]
Failed(e) == [st |-> "err", path |-> <<>>, err |-> e]

\* let x = ...; the value is computed once and handed to what follows
Bind(x, Then(_)) == Then(x)

\* The kernel's path lookup from directory cur: component by component,
\* following symlinks (the final one only when follow), giving the real path
\* of the object, or of the object to create when only the last component is
\* missing.
RECURSIVE Walk(_, _, _, _, _)
Walk(f, cur, comps, follow, hops) ==
    IF comps = <<>> THEN Found(cur)
    ELSE IF Head(comps) = ".." THEN Walk(f, Parent(cur), Tail(comps), follow, hops)
    ELSE Bind(Append(cur, Head(comps)), LAMBDA child :
         IF child \notin DOMAIN f
         THEN IF Len(comps) = 1 THEN Absent(child) ELSE Failed("ENOENT")
         ELSE IF f[child].kind = "dir" THEN Walk(f, child, Tail(comps), follow, hops)
         ELSE IF f[child].kind # "link"
              THEN IF Len(comps) = 1 THEN Found(child) ELSE Failed("ENOTDIR")
         ELSE IF Len(comps) = 1 /\ ~follow THEN Found(child)
         ELSE IF hops = 0 THEN Failed("ELOOP")
         ELSE Walk(f,
                   IF IsAbsolute(f[child].link) THEN Root ELSE cur,
                   Components(f[child].link) \o Tail(comps),
                   follow, hops - 1))

Lstat(f, p) == Walk(f, Root, p, FALSE, MaxLinkHops)
Stat(f, p) == Walk(f, Root, p, TRUE, MaxLinkHops)

\* std::path::Path::exists and is_dir: through symlinks
Exists(f, p) == Stat(f, p).st = "ok"
IsDir(f, p) == Bind(Stat(f, p), LAMBDA w : w.st = "ok" /\ f[w.path].kind = "dir")

Put(f, p, node) == [q \in DOMAIN f \cup {p} |-> IF q = p THEN node ELSE f[q]]
Drop(f, p) == [q \in DOMAIN f \ {p} |-> f[q]]

Done(f) == [fs |-> f, err |-> ""]
Fail(f, e) == [fs |-> f, err |-> e]

\* mkdir(2) with std's default mode 0o777
Mkdir(f, p, um) ==
    Bind(Lstat(f, p), LAMBDA w :
    IF w.st = "ok" THEN Fail(f, "EEXIST")
    ELSE IF w.st = "err" THEN Fail(f, w.err)
    ELSE Done(Put(f, w.path, DirNode(AndNot(Oct(7, 7, 7), um), "me"))))

\* std::fs::create_dir_all, after its parent has been created: mkdir again,
\* and an existing directory is no error
MkdirAgain(up, p, um) ==
    IF up.err # "" THEN up
    ELSE Bind(Mkdir(up.fs, p, um), LAMBDA again :
         IF again.err = "" THEN again
         ELSE IF IsDir(up.fs, p) THEN Done(up.fs)
         ELSE Fail(up.fs, again.err))

\* std::fs::create_dir_all
RECURSIVE CreateDirAll(_, _, _)
CreateDirAll(f, p, um) ==
    Bind(Mkdir(f, p, um), LAMBDA m :
    IF m.err = "" THEN m
    ELSE IF m.err # "ENOENT" THEN IF IsDir(f, p) THEN Done(f) ELSE m
    ELSE IF p = <<>> THEN m
    ELSE MkdirAgain(CreateDirAll(f, Parent(p), um), p, um))

\* std::fs::set_permissions: chmod(2), through symlinks, by the owner only
Chmod(f, p, mode) ==
    Bind(Stat(f, p), LAMBDA w :
    IF w.st # "ok" THEN Fail(f, w.err)
    ELSE IF f[w.path].owner # "me" THEN Fail(f, "EPERM")
    ELSE Done([f EXCEPT ![w.path].mode = mode]))

\* a variant of WriteFile that makes room for the file: what is at the path,
\* a directory included, is replaced
WriteFileOverDirectory(f, p, mode, body, um) ==
    Bind(Stat(f, p), LAMBDA w :
    IF w.st = "err" THEN Fail(f, w.err)
    ELSE IF w.st = "new" THEN Done(Put(f, w.path, FileNode(AndNot(mode, um), body)))
    ELSE IF f[w.path].kind = "dir"
         THEN Done(Put(f, w.path, FileNode(AndNot(mode, um), body)))
    ELSE Done([f EXCEPT ![w.path].body = body]))

\* OpenOptions write+truncate+create with a mode, then io::copy of the body
WriteFile(f, p, mode, body, um) ==
    Bind(Stat(f, p), LAMBDA w :
    IF w.st = "err" THEN Fail(f, w.err)
    ELSE IF w.st = "new" THEN Done(Put(f, w.path, FileNode(AndNot(mode, um), body)))
    ELSE IF f[w.path].kind = "dir" THEN Fail(f, "EISDIR")
    ELSE Done([f EXCEPT ![w.path].body = body]))

\* symlink(2): the target is stored as given
Symlink(f, target, p) ==
    Bind(Lstat(f, p), LAMBDA w :
    IF w.st = "ok" THEN Fail(f, "EEXIST")
    ELSE IF w.st = "err" THEN Fail(f, w.err)
    ELSE Done(Put(f, w.path, LinkNode(target))))

\* AbsoluteSystemPath::remove: unlink(2), which removes anything but a directory
Remove(f, p) ==
    Bind(Lstat(f, p), LAMBDA w :
    IF w.st # "ok" THEN Fail(f, w.err)
    ELSE IF f[w.path].kind = "dir" THEN Fail(f, "EISDIR")
    ELSE Done(Drop(f, w.path)))

(***************************************************************************)
(* turbopath.                                                              *)
(***************************************************************************)
\* AbsoluteSystemPath::resolve: the anchor joined with an anchored path
Resolve(anchor, path) == anchor \o path

\* AbsoluteSystemPath::join_relative: the lexical resolution of a relative
\* path against an absolute one
JoinRelative(base, rel) == CleanAbs(base \o rel)

(***************************************************************************)
(* Tar entries: the header fields the engine reads, and the body.          *)
(***************************************************************************)
Entry(type, name, mode, body, link) ==
    [type |-> type, name |-> name, mode |-> mode, body |-> body, link |-> link]

DirEntry(name, mode) == Entry("Directory", name, mode, "", <<>>)
FileEntry(name, mode, body) == Entry("Regular", name, mode, body, <<>>)
LinkEntry(name, target) == Entry("Symlink", name, Oct(7, 7, 7), "", target)

(***************************************************************************)
(* restore.rs: names.                                                      *)
(***************************************************************************)
\* check_name without its last test, of how the name ends
WellFormedAtFront(name) ==
    /\ name # <<"">>
    /\ ~(name = <<".">> \/ name = <<"..">>)
    /\ ~(Len(name) >= 2 /\ name[1] \in {"", ".", ".."})

\* check_name(name).well_formed
WellFormed(name) ==
    /\ name # <<"">>
    /\ ~(name = <<".">> \/ name = <<"..">>)
    /\ ~(Len(name) >= 2 /\ name[1] \in {"", ".", ".."})
    /\ ~(Len(name) >= 2 /\ Last(name) \in {".", ".."})

\* canonicalize_name on a non-Windows host: the components of a well-formed
\* name, which loses the trailing slashes
CanonicalizeName(name) ==
    IF WellFormed(name)
    THEN [err |-> "", name |-> Components(name)]
    ELSE [err |-> "MalformedName", name |-> <<>>]

\* canonicalize_linkname: the absolute lexical path a link target denotes
\* when stored verbatim in the symlink at processed_name
CanonicalizeLinkname(anchor, processed_name, linkname) ==
    IF IsAbsolute(linkname)
    THEN CleanAbs(Components(linkname))
    ELSE CleanAbs(JoinRelative(Parent(Resolve(anchor, processed_name)),
                               CleanRel(Components(linkname))))

(***************************************************************************)
(* restore_directory.rs.                                                   *)
(***************************************************************************)
\* check_path on a prefix that is a symlink with this target: accepted (""),
\* refused, or to be checked again as an anchored path ("check_path")
CheckLink(anchor, link_target) ==
    IF IsAbsolute(link_target)
    THEN IF IsPrefix(anchor, Components(link_target))
         THEN ""
         ELSE "LinkOutsideOfDirectory"
    ELSE IF IsPrefix(anchor, JoinRelative(anchor, Components(link_target)))
         THEN "check_path"
         ELSE "LinkOutsideOfDirectory"

\* check_path: "" when the prefix is accepted, else the error
RECURSIVE CheckPath(_, _, _, _)
CheckPath(f, anchor, path, depth) ==
    Bind(Lstat(f, Resolve(anchor, path)), LAMBDA w :
    IF w.st # "ok" THEN ""
    ELSE IF f[w.path].kind # "link" THEN ""
    ELSE Bind(CheckLink(anchor, f[w.path].link), LAMBDA verdict :
         IF verdict # "check_path" THEN verdict
         ELSE IF depth = 0 THEN "StackOverflow"
         ELSE CheckPath(f, anchor, Components(f[w.path].link), depth - 1)))

\* a variant of CheckedPrefixes with the check after each push as well: the
\* whole name is checked too
CheckedThroughName(processed_name) ==
    [i \in 1..(Len(processed_name) + 1) |-> SubSeq(processed_name, 1, i - 1)]

\* the prefixes safe_mkdir_all hands to check_path: current_path before each
\* component is pushed
CheckedPrefixes(processed_name) ==
    [i \in 1..Len(processed_name) |-> SubSeq(processed_name, 1, i - 1)]

\* the first error of check_path over a sequence of prefixes, "" if none
RECURSIVE FirstError(_, _, _)
FirstError(f, anchor, prefixes) ==
    IF prefixes = <<>> THEN ""
    ELSE Bind(CheckPath(f, anchor, Head(prefixes), MaxCheckDepth), LAMBDA e :
         IF e # "" THEN e ELSE FirstError(f, anchor, Tail(prefixes)))

\* safe_mkdir_all after create_dir_all: fs::metadata, then set_permissions
SetDirMode(made, resolved_name, mode) ==
    IF made.err # "" THEN made
    ELSE Bind(Stat(made.fs, resolved_name), LAMBDA metadata :
         IF metadata.st # "ok" THEN Fail(made.fs, metadata.err)
         ELSE Chmod(made.fs, resolved_name, mode))

\* safe_mkdir_all
SafeMkdirAll(f, anchor, processed_name, mode, um) ==
    Bind(FirstError(f, anchor, CheckedPrefixes(processed_name)), LAMBDA e :
    IF e # "" THEN Fail(f, e)
    ELSE SetDirMode(CreateDirAll(f, Resolve(anchor, processed_name), um),
                    Resolve(anchor, processed_name), mode))

(***************************************************************************)
(* restore_regular.rs.                                                     *)
(***************************************************************************)
\* is_root_file: the parent of the name equals Path::new("."); the parent of
\* a one-component name is the empty path, which has no component
IsRootFile(processed_name) == Parent(processed_name) = <<".">>

\* safe_mkdir_file: the mode parameter is not used
SafeMkdirFile(f, anchor, processed_name, um) ==
    IF IsRootFile(processed_name) THEN Done(f)
    ELSE SafeMkdirAll(f, anchor, Parent(processed_name), Oct(7, 5, 5), um)

Restored(f, name) == [fs |-> f, err |-> "", name |-> name]
NotRestored(f, e) == [fs |-> f, err |-> e, name |-> <<>>]

\* the Result of a restorer from the last file system operation it makes
Outcome(out, name) ==
    IF out.err # "" THEN NotRestored(out.fs, out.err) ELSE Restored(out.fs, name)

\* restore_regular
RestoreRegular(f, anchor, e, um) ==
    Bind(CanonicalizeName(e.name), LAMBDA cn :
    IF cn.err # "" THEN NotRestored(f, cn.err)
    ELSE Bind(SafeMkdirFile(f, anchor, cn.name, um), LAMBDA dir :
         IF dir.err # "" THEN NotRestored(dir.fs, dir.err)
         ELSE Outcome(WriteFile(dir.fs, Resolve(anchor, cn.name), e.mode, e.body, um),
                      cn.name)))

\* restore_directory
RestoreDirectory(f, anchor, e, um) ==
    Bind(CanonicalizeName(e.name), LAMBDA cn :
    IF cn.err # "" THEN NotRestored(f, cn.err)
    ELSE Outcome(SafeMkdirAll(f, anchor, cn.name, e.mode, um), cn.name))

(***************************************************************************)
(* restore_symlink.rs.                                                     *)
(***************************************************************************)
\* a variant of ActuallyRestoreSymlink that stores the canonicalized link
\* target, an absolute path, in place of the target of the header
ActuallyRestoreSymlinkResolved(f, anchor, processed_name, e, um) ==
    Bind(SafeMkdirFile(f, anchor, processed_name, um), LAMBDA dir :
    IF dir.err # "" THEN NotRestored(dir.fs, dir.err)
    ELSE Outcome(Symlink(Remove(dir.fs, Resolve(anchor, processed_name)).fs,
                         <<"">> \o CanonicalizeLinkname(anchor, processed_name, e.link),
                         Resolve(anchor, processed_name)),
                 processed_name))

\* actually_restore_symlink: the parent directory, the removal of what is at
\* the name (its failure ignored), the symlink with the stored target; the
\* header's mode is set on a copy of the permissions and never written back
ActuallyRestoreSymlink(f, anchor, processed_name, e, um) ==
    Bind(SafeMkdirFile(f, anchor, processed_name, um), LAMBDA dir :
    IF dir.err # "" THEN NotRestored(dir.fs, dir.err)
    ELSE Outcome(Symlink(Remove(dir.fs, Resolve(anchor, processed_name)).fs,
                         e.link, Resolve(anchor, processed_name)),
                 processed_name))

\* restore_symlink
RestoreSymlink(f, anchor, e, um) ==
    Bind(CanonicalizeName(e.name), LAMBDA cn :
    IF cn.err # "" THEN NotRestored(f, cn.err)
    ELSE IF ~Exists(f, CanonicalizeLinkname(anchor, cn.name, e.link))
         THEN NotRestored(f, "LinkTargetDoesNotExist")
    ELSE ActuallyRestoreSymlink(f, anchor, cn.name, e, um))

\* restore_symlink_with_missing_target
RestoreSymlinkWithMissingTarget(f, anchor, e, um) ==
    Bind(CanonicalizeName(e.name), LAMBDA cn :
    IF cn.err # "" THEN NotRestored(f, cn.err)
    ELSE ActuallyRestoreSymlink(f, anchor, cn.name, e, um))

(***************************************************************************)
(* restore.rs: CacheReader.                                                *)
(***************************************************************************)
\* restore_entry
RestoreEntryOp(f, anchor, e, um) ==
    IF e.type = "Directory" THEN RestoreDirectory(f, anchor, e, um)
    ELSE IF e.type = "Regular" THEN RestoreRegular(f, anchor, e, um)
    ELSE IF e.type = "Symlink" THEN RestoreSymlink(f, anchor, e, um)
    ELSE NotRestored(f, "UnsupportedFileType")

\* topologically_restore_symlinks: the graph key of a deferred entry's own
\* location, computed by canonicalize_linkname from the name as link target
SourceKey(anchor, e) ==
    CanonicalizeLinkname(anchor, CanonicalizeName(e.name).name,
                         CanonicalizeName(e.name).name)

\* ... and of its link target
TargetKey(anchor, e) ==
    CanonicalizeLinkname(anchor, CanonicalizeName(e.name).name, e.link)

\* the edges graph.add_edge adds, one per deferred entry
GraphEdges(anchor, deferred) ==
    {<<SourceKey(anchor, deferred[i]), TargetKey(anchor, deferred[i])>> :
        i \in 1..Len(deferred)}

\* header_lookup: the header of the last deferred entry with each source key
HeaderLookup(anchor, deferred) ==
    LET keys == {SourceKey(anchor, deferred[i]) : i \in 1..Len(deferred)}
        last(k) == CHOOSE i \in 1..Len(deferred) :
                      /\ SourceKey(anchor, deferred[i]) = k
                      /\ \A j \in 1..Len(deferred) :
                            SourceKey(anchor, deferred[j]) = k => j <= i
    IN  [k \in keys |-> deferred[last(k)]]

\* petgraph::algo::toposort fails exactly on a graph with a cycle (a self
\* loop is one): no order exists iff removing the edges whose source has no
\* incoming edge, again and again, leaves edges
RECURSIVE HasCycle(_)
HasCycle(edges) ==
    LET free == {e \in edges : \A d \in edges : d[2] # e[1]}
    IN  IF edges = {} THEN FALSE
        ELSE IF free = {} THEN TRUE
        ELSE HasCycle(edges \ free)

\* a key may be visited next in some topological order: every node with an
\* edge to it has been visited
Ready(edges, left, k) == \A e \in edges : e[2] = k => e[1] \notin left
(***************************************************************************)
(* CacheReader::restore as a state machine: one step per archive entry of  *)
(* the first pass, one for the graph and its sort, one per deferred        *)
(* symlink of the second pass.                                             *)
(***************************************************************************)
Stop(r) == result' = r /\ pc' = "done"

\* restore: fs::create_dir_all(anchor) before the first entry is read
Begin ==
    /\ pc = "start"
    /\ Bind(CreateDirAll(fs, Anchor, umask), LAMBDA made :
           /\ fs' = made.fs
           /\ IF made.err # "" THEN Stop(made.err)
              ELSE pc' = "entries" /\ result' = result)
    /\ UNCHANGED <<umask, archive, pos, symlinks, restored, lookup, waiting, src, todo>>
    /\ UNCHANGED others

\* restore_entries with a loop that goes on to the next entry after any error
RestoreEntrySkipping ==
    /\ pc = "entries"
    /\ pos <= Len(archive)
    /\ Bind(RestoreEntryOp(fs, Anchor, archive[pos], umask), LAMBDA r :
           IF r.err = "LinkTargetDoesNotExist"
           THEN /\ symlinks' = Append(symlinks, archive[pos])
                /\ pos' = pos + 1
                /\ UNCHANGED <<fs, restored, pc, result>>
           ELSE IF r.err # ""
           THEN /\ fs' = r.fs
                /\ pos' = pos + 1
                /\ UNCHANGED <<symlinks, restored, pc, result>>
           ELSE /\ fs' = r.fs
                /\ restored' = Append(restored, r.name)
                /\ pos' = pos + 1
                /\ UNCHANGED <<symlinks, pc, result>>)
    /\ UNCHANGED <<umask, archive, lookup, waiting, src, todo>>
    /\ UNCHANGED others

\* restore_entries: the body of the loop over tr.entries()
RestoreEntry ==
    /\ pc = "entries"
    /\ pos <= Len(archive)
    /\ Bind(RestoreEntryOp(fs, Anchor, archive[pos], umask), LAMBDA r :
           IF r.err = "LinkTargetDoesNotExist"
           THEN /\ symlinks' = Append(symlinks, archive[pos])
                /\ pos' = pos + 1
                /\ UNCHANGED <<fs, restored, pc, result>>
           ELSE IF r.err # ""
           THEN /\ fs' = r.fs
                /\ Stop(r.err)
                /\ UNCHANGED <<pos, symlinks, restored>>
           ELSE /\ fs' = r.fs
                /\ restored' = Append(restored, r.name)
                /\ pos' = pos + 1
                /\ UNCHANGED <<symlinks, pc, result>>)
    /\ UNCHANGED <<umask, archive, lookup, waiting, src, todo>>
    /\ UNCHANGED others

\* topologically_restore_symlinks up to the sort: the graph, header_lookup,
\* and CycleDetected when toposort finds a cycle
Toposort ==
    /\ pc = "entries"
    /\ pos > Len(archive)
    /\ IF HasCycle(GraphEdges(Anchor, symlinks))
       THEN /\ Stop("CycleDetected")
            /\ UNCHANGED <<lookup, waiting>>
       ELSE /\ lookup' = HeaderLookup(Anchor, symlinks)
            /\ waiting' = DOMAIN HeaderLookup(Anchor, symlinks)
            /\ IF symlinks = <<>> THEN Stop("Ok")
               ELSE pc' = "links" /\ result' = result
    /\ UNCHANGED <<fs, umask, archive, pos, symlinks, restored, src, todo>>
    /\ UNCHANGED others

\* topologically_restore_symlinks, the loop over the sorted nodes: the next
\* node that has a header, in any order toposort may return
RestoreDeferred ==
    /\ pc = "links"
    /\ \E k \in waiting :
          /\ Ready(GraphEdges(Anchor, symlinks), waiting, k)
          /\ Bind(RestoreSymlinkWithMissingTarget(fs, Anchor, lookup[k], umask), LAMBDA r :
                 /\ fs' = r.fs
                 /\ waiting' = waiting \ {k}
                 /\ IF r.err # ""
                    THEN Stop(r.err) /\ restored' = restored
                    ELSE /\ restored' = Append(restored, r.name)
                         /\ IF waiting = {k} THEN Stop("Ok")
                            ELSE pc' = pc /\ result' = result)
    /\ UNCHANGED <<umask, archive, pos, symlinks, lookup, src, todo>>
    /\ UNCHANGED others

Next == Begin \/ RestoreEntry \/ Toposort \/ RestoreDeferred

(***************************************************************************)
(* Initial states: a fresh anchor /w below a directory that the process    *)
(* may or may not own, and an archive of at most MaxEntries entries.       *)
(***************************************************************************)
FreshFs(owner) ==
    (Root :> DirNode(Oct(7, 7, 7), owner)) @@ (Anchor :> DirNode(Oct(7, 0, 0), "me"))

NoFs == [p \in {} |-> DirNode(0, "me")]

Archives(entries, longest) == UNION {[1..n -> entries] : n \in 0..longest}

\* no key in the environment, no authenticator, nothing called yet
Unset == [set |-> FALSE]
NoSigner == [some |-> FALSE]
NoCall == [op |-> ""]
NoTag == [form |-> "", made |-> FALSE]
InitOthers ==
    /\ env = Unset
    /\ signer_verifier = NoSigner
    /\ issued = NoTag
    /\ call = NoCall

InitRestore(entries, longest, owners) ==
    /\ InitOthers
    /\ fs \in {FreshFs(o) : o \in owners}
    /\ umask = Oct(0, 2, 2)
    /\ archive \in Archives(entries, longest)
    /\ pos = 1
    /\ symlinks = <<>>
    /\ restored = <<>>
    /\ lookup = [k \in {} |-> 0]
    /\ waiting = {}
    /\ pc = "start"
    /\ result = ""
    /\ src = NoFs
    /\ todo = <<>>

\* archives around directories, files below them, symlinks that lead out
\* of and into the anchor, and a fifo
TraversalEntries ==
    { LinkEntry(<<"a">>, <<"..", "">>),
      FileEntry(<<"a", "b">>, Oct(6, 4, 4), "payload"),
      DirEntry(<<"d", "">>, Oct(7, 0, 0)),
      LinkEntry(<<"d", "a">>, <<"..", "">>),
      FileEntry(<<"d", "a", "b">>, Oct(6, 4, 4), "sibling"),
      FileEntry(<<"d">>, Oct(6, 4, 4), "file"),
      DirEntry(<<"d", "..", "..", "b", "">>, Oct(7, 5, 5)),
      LinkEntry(<<"b">>, <<"d">>),
      Entry("Fifo", <<"p">>, Oct(6, 4, 4), "", <<>>) }

Init == InitRestore(TraversalEntries, MaxEntries, {"me", "other"})

Spec == Init /\ [][Next]_vars

\* archives of symlinks with the same name, in chains and in cycles
LinkEntries ==
    { LinkEntry(<<"a">>, <<"b">>),
      LinkEntry(<<"b">>, <<"d">>),
      Entry("Symlink", <<"a">>, Oct(7, 5, 5), "", <<"d">>),
      LinkEntry(<<"b">>, <<"a">>),
      FileEntry(<<"d">>, Oct(6, 4, 4), "real"),
      LinkEntry(<<"d", "a">>, <<"b">>),
      LinkEntry(<<"d", "b">>, <<"a">>),
      LinkEntry(<<"d", "..", "a">>, <<"b">>) }

InitLinks == InitRestore(LinkEntries, MaxEntries, {"other"})

SpecLinks == InitLinks /\ [][Next]_vars

\* archives around a chain of symlinks that ends at a regular file
ChainEntries ==
    { LinkEntry(<<"a">>, <<"b">>),
      LinkEntry(<<"b">>, <<"c">>),
      LinkEntry(<<"c">>, <<"d">>),
      LinkEntry(<<"b">>, <<"d">>),
      FileEntry(<<"d">>, Oct(6, 4, 4), "real") }

InitChain == InitRestore(ChainEntries, MaxChain, {"other"})

SpecChain == InitChain /\ [][Next]_vars

\* archives of directories and regular files: a directory with one mode or
\* another, a directory and a file in it, a file at the top
TreeEntries ==
    { DirEntry(<<"d", "">>, Oct(7, 0, 0)),
      DirEntry(<<"d", "e", "">>, Oct(7, 5, 5)),
      FileEntry(<<"d", "f">>, Oct(6, 4, 4), "payload"),
      FileEntry(<<"d", "e", "g">>, Oct(6, 0, 0), "deep"),
      FileEntry(<<"g">>, Oct(6, 4, 4), "top") }

InitTree == InitRestore(TreeEntries, MaxEntries, {"me", "other"})

\* with no symlink in the archive none is ever deferred
NextTree == Begin \/ RestoreEntry \/ Toposort

SpecTree == InitTree /\ [][NextTree]_vars

(***************************************************************************)
(* writer.rs: CacheArchive, and the round trip through an archive.         *)
(***************************************************************************)
\* get_canonical_tar_name: push("") onto a directory's name, which adds the
\* trailing slash
GetCanonicalTarName(path, is_dir) == IF is_dir THEN Append(path, "") ELSE path

\* Header::new_gnu: the numeric fields as the digits written in them; none
\* is written but the modification time
NewGnu ==
    [uid |-> <<>>, gid |-> <<>>, size |-> <<>>, mtime |-> <<48>>, atime |-> <<>>,
     ctime |-> <<>>]

\* create_header: a new GNU header with the path and the mode of the file;
\* the entry type and the size are never set, so the type flag is the zero
\* byte of the fresh header, which reads as a regular file, and there is no
\* size to copy a body for
CreateHeader(path, file_info) ==
    Entry("Regular", GetCanonicalTarName(path, file_info.kind = "dir"),
          file_info.mode, "", <<>>)
    @@ NewGnu

\* the digits of a user id and of a time of the model
UidOf(owner) == IF owner = "me" THEN <<53, 48, 49>> ELSE <<48>>
TimeOf(t) == <<48 + t>>

\* add_file with Header::set_metadata in place of the fields set to 0
AddFileOpFromMetadata(f, anchor, file_path, size_reads) ==
    Bind(Lstat(f, Resolve(anchor, file_path)), LAMBDA file_info :
    IF file_info.st # "ok" THEN [err |-> file_info.err, entry |-> <<>>]
    ELSE IF CreateHeader(file_path, f[file_info.path]).type
                \notin {"Regular", "Directory", "Symlink"}
    THEN [err |-> "UnsupportedFileType", entry |-> <<>>]
    ELSE IF size_reads = "error" THEN [err |-> "InvalidNumericField", entry |-> <<>>]
    ELSE [err |-> "",
          entry |-> [CreateHeader(file_path, f[file_info.path])
                        EXCEPT !.link = f[file_info.path].link,
                               !.uid = UidOf(f[file_info.path].owner),
                               !.gid = UidOf(f[file_info.path].owner),
                               !.mtime = TimeOf(f[file_info.path].mtime)]])

\* add_file, with how header.size() reads the size field that was never
\* written: as zero, or as an error for a field that is no number
AddFileOp(f, anchor, file_path, size_reads) ==
    Bind(Lstat(f, Resolve(anchor, file_path)), LAMBDA file_info :
    IF file_info.st # "ok" THEN [err |-> file_info.err, entry |-> <<>>]
    ELSE IF CreateHeader(file_path, f[file_info.path]).type
                \notin {"Regular", "Directory", "Symlink"}
    THEN [err |-> "UnsupportedFileType", entry |-> <<>>]
    ELSE IF size_reads = "error" THEN [err |-> "InvalidNumericField", entry |-> <<>>]
    ELSE [err |-> "",
          entry |-> [CreateHeader(file_path, f[file_info.path])
                        EXCEPT !.link = f[file_info.path].link,
                               !.uid = <<48>>, !.gid = <<48>>, !.atime = <<48>>,
                               !.mtime = <<48>>, !.ctime = <<48>>]])

\* CacheArchive::add_file for the next name of the tree
AddFile ==
    /\ pc = "write"
    /\ todo # <<>>
    /\ \E size_reads \in {"zero", "error"} :
          Bind(AddFileOp(src, Anchor, Head(todo), size_reads), LAMBDA r :
              IF r.err # ""
              THEN Stop(r.err) /\ UNCHANGED <<archive, todo>>
              ELSE /\ archive' = Append(archive, r.entry)
                   /\ todo' = Tail(todo)
                   /\ UNCHANGED <<pc, result>>)
    /\ UNCHANGED <<fs, umask, pos, symlinks, restored, lookup, waiting, src>>
    /\ UNCHANGED others

\* CacheReader::open on the finished archive
Open ==
    /\ pc = "write"
    /\ todo = <<>>
    /\ pc' = "start"
    /\ UNCHANGED <<fs, umask, archive, pos, symlinks, restored, lookup,
                   waiting, result, src, todo>>
    /\ UNCHANGED others

\* with every entry a regular file no symlink is ever deferred
NextRT == AddFile \/ Open \/ Begin \/ RestoreEntry \/ Toposort

\* the trees to archive: any of a directory, a file in it, a file, a symlink
\* to it and a fifo at the top, in the order directories before their
\* contents
TreeNames == << <<"d">>, <<"d", "f">>, <<"f">>, <<"l">>, <<"p">> >>

TreeNode(name, dmode, fmode) ==
    IF name = <<"d">> THEN DirNode(dmode, "me")
    ELSE IF name = <<"l">> THEN LinkNode(<<"f">>)
    ELSE IF name = <<"p">> THEN Node("fifo", fmode, "me", "", <<>>)
    ELSE FileNode(fmode, IF Len(name) = 1 THEN "top" ELSE "")

Tree(names, dmode, fmode) ==
    [p \in {<<>>, Anchor} \cup {Anchor \o TreeNames[i] : i \in names} |->
        IF Len(p) <= 1 THEN DirNode(Oct(7, 5, 5), "me")
        ELSE TreeNode(SubSeq(p, 2, Len(p)), dmode, fmode)]

\* the tree with an owner and a modification time on every file of it
Owned(tree, owner, mtime) ==
    [p \in DOMAIN tree |-> [tree[p] EXCEPT !.owner = owner] @@ [mtime |-> mtime]]

InTree(name) == Resolve(Anchor, name) \in DOMAIN src

InitRT ==
    /\ \E names \in SUBSET (1..Len(TreeNames)) :
       \E dmode \in {Oct(7, 5, 5), Oct(7, 0, 0)} :
       \E fmode \in {Oct(6, 4, 4), Oct(6, 6, 6)} :
          /\ 2 \in names => 1 \in names
          /\ \E owner \in {"me", "other"}, mtime \in {0, 7} :
                src = Owned(Tree(names, dmode, fmode), owner, mtime)
    /\ todo = SelectSeq(TreeNames, InTree)
    /\ InitOthers
    /\ fs = FreshFs("other")
    /\ umask \in {0, Oct(0, 2, 2)}
    /\ archive = <<>>
    /\ pos = 1
    /\ symlinks = <<>>
    /\ restored = <<>>
    /\ lookup = [k \in {} |-> 0]
    /\ waiting = {}
    /\ pc = "write"
    /\ result = ""

SpecRT == InitRT /\ [][NextRT]_vars

(***************************************************************************)
(* signature_authentication.rs.  Keys, hashes, team ids, bodies and tags   *)
(* are sequences of bytes, a text the sequence of its ASCII codes.         *)
(***************************************************************************)
\* serde_json's string escape for the texts of the model: a quote and a
\* backslash get a backslash in front
RECURSIVE JsonEscape(_)
JsonEscape(text) ==
    IF text = <<>> THEN <<>>
    ELSE (IF Head(text) \in {34, 92} THEN <<92, Head(text)>> ELSE <<Head(text)>>)
         \o JsonEscape(Tail(text))

\* ArtifactSignatureAuthenticator::new, and env::set_var's effect
New(team_id) == [some |-> TRUE, team_id |-> team_id]
Var(value) == [set |-> TRUE, value |-> value]

\* the metadata of the hash alone
ConstructMetadataWithoutTeam(team_id, hash) ==
    <<123, 34, 104, 97, 115, 104, 34, 58, 34>> \o JsonEscape(hash) \o <<34, 125>>

\* construct_metadata: {"hash":"<hash>","teamId":"<team_id>"}
ConstructMetadata(team_id, hash) ==
    <<123, 34, 104, 97, 115, 104, 34, 58, 34>>
    \o JsonEscape(hash)
    \o <<34, 44, 34, 116, 101, 97, 109, 73, 100, 34, 58, 34>>
    \o JsonEscape(team_id)
    \o <<34, 125>>

\* a call's error, and the verdict of a validation
Err(e) == [err |-> e]
Ok(b) == [err |-> "", ok |-> b]

\* secret_key through env::var: a value that is not text is no value
SecretKeyOfText(e) ==
    IF ~e.set \/ (\E i \in 1..Len(e.value) : e.value[i] > 127)
    THEN Err("NoSignatureSecretKey")
    ELSE [err |-> "", key |-> e.value]

\* secret_key with unwrap_or_default: no value is the empty key
SecretKeyOrEmpty(e) == [err |-> "", key |-> IF e.set THEN e.value ELSE <<>>]

\* secret_key: the raw bytes of the variable, whatever they are
SecretKey(e) ==
    IF ~e.set THEN Err("NoSignatureSecretKey") ELSE [err |-> "", key |-> e.value]

\* a key longer than the 64-byte block of SHA-256, and its SHA-256 digest
LongKey == [i \in 1..65 |-> 107]
LongKeyDigest ==
    <<243, 156, 220, 37, 132, 117, 140, 153, 207, 129, 193, 244, 29, 37,
    114, 245, 78, 23, 6, 106, 255, 252, 157, 24, 122, 234, 254, 95, 124,
    190, 33, 34>>

\* SHA-256, on the one input the model digests
Sha256(bytes) == CASE bytes = LongKey -> LongKeyDigest

\* hmac::Key::new: a key longer than the block is replaced by its digest
PrepareKey(key) == IF Len(key) > 64 THEN Sha256(key) ELSE key

\* HMAC-SHA256 as an ideal MAC: a one-to-one function of the prepared key and
\* the message; the zero byte stands for the zeros HMAC fills the key's block
\* with (a key from the environment holds no zero byte)
HmacSha256(key, message) == PrepareKey(key) \o <<0>> \o message

\* hmac::verify: the tag of the message under the key is the expected one
HmacVerify(key, message, expected_tag) == HmacSha256(key, message) = expected_tag

\* the alphabet of BASE64_STANDARD, and '='
Alphabet ==
    <<65, 66, 67, 68, 69, 70, 71, 72, 73, 74, 75, 76, 77, 78, 79, 80, 81,
    82, 83, 84, 85, 86, 87, 88, 89, 90, 97, 98, 99, 100, 101, 102, 103, 104,
    105, 106, 107, 108, 109, 110, 111, 112, 113, 114, 115, 116, 117, 118,
    119, 120, 121, 122, 48, 49, 50, 51, 52, 53, 54, 55, 56, 57, 43, 47>>
IsSextet(c) == c \in (65..90) \cup (97..122) \cup (48..57) \cup {43, 47}
Sextet(c) ==
    IF c \in 65..90 THEN c - 65
    ELSE IF c \in 97..122 THEN c - 71
    ELSE IF c \in 48..57 THEN c + 4
    ELSE IF c = 43 THEN 62 ELSE 63

\* the byte at a place of what is encoded, 0 past its end
ByteAt(bytes, k) == IF k <= Len(bytes) THEN bytes[k] ELSE 0

\* the i-th symbol of the encoding: every three bytes make four symbols, and
\* '=' stands where no byte is left
SymbolAt(bytes, i) ==
    Bind(3 * ((i - 1) \div 4), LAMBDA g :
    Bind((i - 1) % 4, LAMBDA at :
        IF at = 0 THEN Alphabet[ByteAt(bytes, g + 1) \div 4 + 1]
        ELSE IF at = 1
        THEN Alphabet[(ByteAt(bytes, g + 1) % 4) * 16 + ByteAt(bytes, g + 2) \div 16 + 1]
        ELSE IF at = 2
        THEN IF g + 2 > Len(bytes) THEN 61
             ELSE Alphabet[(ByteAt(bytes, g + 2) % 16) * 4 + ByteAt(bytes, g + 3) \div 64 + 1]
        ELSE IF g + 3 > Len(bytes) THEN 61
             ELSE Alphabet[(ByteAt(bytes, g + 3) % 64) + 1]))

\* BASE64_STANDARD_NO_PAD.encode
Base64EncodeNoPad(bytes) ==
    SelectSeq([i \in 1..(4 * ((Len(bytes) + 2) \div 3)) |-> SymbolAt(bytes, i)],
              LAMBDA c : c # 61)

\* BASE64_STANDARD.encode
Base64Encode(bytes) ==
    [i \in 1..(4 * ((Len(bytes) + 2) \div 3)) |-> SymbolAt(bytes, i)]

\* the bytes of four symbols that end a text: padded, with no bit set in
\* what the padding cuts off
DecodeLast(q) ==
    IF ~(IsSextet(q[1]) /\ IsSextet(q[2])) THEN Err("Base64EncodingError")
    ELSE IF q[3] = 61 /\ q[4] = 61
    THEN IF Sextet(q[2]) % 16 # 0 THEN Err("Base64EncodingError")
         ELSE [err |-> "", bytes |-> <<Sextet(q[1]) * 4 + Sextet(q[2]) \div 16>>]
    ELSE IF ~IsSextet(q[3]) THEN Err("Base64EncodingError")
    ELSE IF q[4] = 61
    THEN IF Sextet(q[3]) % 4 # 0 THEN Err("Base64EncodingError")
         ELSE [err |-> "",
               bytes |-> <<Sextet(q[1]) * 4 + Sextet(q[2]) \div 16,
                           (Sextet(q[2]) % 16) * 16 + Sextet(q[3]) \div 4>>]
    ELSE IF ~IsSextet(q[4]) THEN Err("Base64EncodingError")
    ELSE [err |-> "",
          bytes |-> <<Sextet(q[1]) * 4 + Sextet(q[2]) \div 16,
                      (Sextet(q[2]) % 16) * 16 + Sextet(q[3]) \div 4,
                      (Sextet(q[3]) % 4) * 64 + Sextet(q[4])>>]

\* the k-th byte of what four symbols after four symbols decode to
DecodedAt(text, k) ==
    Bind(4 * ((k - 1) \div 3), LAMBDA g :
    Bind((k - 1) % 3, LAMBDA at :
        IF at = 0 THEN Sextet(text[g + 1]) * 4 + Sextet(text[g + 2]) \div 16
        ELSE IF at = 1
        THEN (Sextet(text[g + 2]) % 16) * 16 + Sextet(text[g + 3]) \div 4
        ELSE (Sextet(text[g + 3]) % 4) * 64 + Sextet(text[g + 4])))

\* BASE64_STANDARD.decode: symbols by fours, padding at the end only
Base64Decode(text) ==
    IF text = <<>> THEN [err |-> "", bytes |-> <<>>]
    ELSE IF Len(text) % 4 # 0 THEN Err("Base64EncodingError")
    ELSE IF \E i \in 1..(Len(text) - 4) : ~IsSextet(text[i]) THEN Err("Base64EncodingError")
    ELSE Bind(DecodeLast(SubSeq(text, Len(text) - 3, Len(text))), LAMBDA last :
         IF last.err # "" THEN last
         ELSE [err |-> "",
               bytes |-> [k \in 1..(3 * (Len(text) \div 4 - 1)) |-> DecodedAt(text, k)]
                         \o last.bytes])

\* generate_tag_bytes
GenerateTagBytes(e, team_id, hash, artifact_body) ==
    Bind(SecretKey(e), LAMBDA secret_key :
    IF secret_key.err # "" THEN secret_key
    ELSE [err |-> "",
          tag |-> HmacSha256(secret_key.key,
                             ConstructMetadata(team_id, hash) \o artifact_body)])

\* generate_tag
GenerateTag(e, team_id, hash, artifact_body) ==
    Bind(SecretKey(e), LAMBDA secret_key :
    IF secret_key.err # "" THEN secret_key
    ELSE [err |-> "",
          tag |-> Base64Encode(HmacSha256(secret_key.key,
                      ConstructMetadata(team_id, hash) \o artifact_body))])

\* validate_tag
ValidateTag(e, team_id, hash, artifact_body, expected_tag) ==
    Bind(SecretKey(e), LAMBDA secret_key :
    IF secret_key.err # "" THEN secret_key
    ELSE [err |-> "",
          ok |-> HmacVerify(secret_key.key,
                            ConstructMetadata(team_id, hash) \o artifact_body,
                            expected_tag)])

\* validate without the comparison: a tag that is base64 is taken
ValidateDecodable(e, team_id, hash, artifact_body, expected_tag) ==
    Bind(SecretKey(e), LAMBDA secret_key :
    IF secret_key.err # "" THEN secret_key
    ELSE Bind(Base64Decode(expected_tag), LAMBDA expected_bytes :
         IF expected_bytes.err # "" THEN expected_bytes ELSE Ok(TRUE)))

\* validate
Validate(e, team_id, hash, artifact_body, expected_tag) ==
    Bind(SecretKey(e), LAMBDA secret_key :
    IF secret_key.err # "" THEN secret_key
    ELSE Bind(Base64Decode(expected_tag), LAMBDA expected_bytes :
         IF expected_bytes.err # "" THEN expected_bytes
         ELSE [err |-> "",
               ok |-> HmacVerify(secret_key.key,
                                 ConstructMetadata(team_id, hash) \o artifact_body,
                                 expected_bytes.bytes)]))

\* what the authenticator is called with: a key of text, a key longer than
\* a block of SHA-256 and the digest of that key, which is not UTF-8; team
\* ids and hashes, one of each with quotes in it; bodies
Keys == {<<107, 49>>, LongKey, LongKeyDigest}
TeamIds == {<<116>>, <<115, 34, 44, 34, 116, 101, 97, 109, 73, 100, 34, 58, 34, 116>>}
Hashes == {<<104>>, <<104, 34, 44, 34, 116, 101, 97, 109, 73, 100, 34, 58, 34, 115>>}
Bodies == {<<5, 72>>, <<5>>}

\* tags nobody generated: the base64 of "bad tag", a text with a symbol
\* outside the alphabet, and the bytes "bad tag"
BadTags == {<<89, 109, 70, 107, 73, 72, 82, 104, 90, 119, 61, 61>>, <<42, 42, 42, 42>>}

\* env::set_var and env::remove_var on TURBO_REMOTE_CACHE_SIGNATURE_KEY
SetVar ==
    /\ \E k \in Keys : env' = Var(k)
    /\ UNCHANGED <<engine, signer_verifier, issued, call>>

RemoveVar ==
    /\ env' = Unset
    /\ UNCHANGED <<engine, signer_verifier, issued, call>>

\* an authenticator for a team
NewAuthenticator ==
    /\ \E t \in TeamIds : signer_verifier' = New(t)
    /\ UNCHANGED <<engine, env, issued, call>>

\* a tag that comes from elsewhere
ForeignTag ==
    /\ \/ \E t \in BadTags : issued' = [form |-> "base64", made |-> FALSE, tag |-> t]
       \/ issued' = [form |-> "bytes", made |-> FALSE, tag |-> <<98, 97, 100, 32, 116, 97, 103>>]
    /\ call' = NoCall
    /\ UNCHANGED <<engine, env, signer_verifier>>

Called(op, hash, body, r) ==
    [op |-> op, key |-> env, team_id |-> signer_verifier.team_id, hash |-> hash,
     body |-> body, result |-> r]

Issue(form, hash, body, r) ==
    IF r.err # "" THEN issued
    ELSE [form |-> form, made |-> TRUE, key |-> env,
          team_id |-> signer_verifier.team_id,
          hash |-> hash, body |-> body, tag |-> r.tag]

\* a call of generate_tag
GenerateTagCall ==
    /\ signer_verifier.some
    /\ \E h \in Hashes, b \in Bodies :
          Bind(GenerateTag(env, signer_verifier.team_id, h, b), LAMBDA r :
              /\ call' = Called("generate_tag", h, b, r)
              /\ issued' = Issue("base64", h, b, r))
    /\ UNCHANGED <<engine, env, signer_verifier>>

\* a call of generate_tag_bytes
GenerateTagBytesCall ==
    /\ signer_verifier.some
    /\ \E h \in Hashes, b \in Bodies :
          Bind(GenerateTagBytes(env, signer_verifier.team_id, h, b), LAMBDA r :
              /\ call' = Called("generate_tag_bytes", h, b, r)
              /\ issued' = Issue("bytes", h, b, r))
    /\ UNCHANGED <<engine, env, signer_verifier>>

\* a call of validate with the tag at hand
ValidateCall ==
    /\ signer_verifier.some
    /\ issued.form = "base64"
    /\ \E h \in Hashes, b \in Bodies :
          call' = Called("validate", h, b,
                         Validate(env, signer_verifier.team_id, h, b, issued.tag))
    /\ UNCHANGED <<engine, env, signer_verifier, issued>>

\* a call of validate_tag with the tag at hand
ValidateTagCall ==
    /\ signer_verifier.some
    /\ issued.form = "bytes"
    /\ \E h \in Hashes, b \in Bodies :
          call' = Called("validate_tag", h, b,
                         ValidateTag(env, signer_verifier.team_id, h, b, issued.tag))
    /\ UNCHANGED <<engine, env, signer_verifier, issued>>

NextSig ==
    \/ SetVar
    \/ RemoveVar
    \/ NewAuthenticator
    \/ ForeignTag
    \/ GenerateTagCall
    \/ GenerateTagBytesCall
    \/ ValidateCall
    \/ ValidateTagCall

\* no archive is being restored or created
InitIdle ==
    /\ fs = FreshFs("other")
    /\ umask = Oct(0, 2, 2)
    /\ archive = <<>>
    /\ pos = 1
    /\ symlinks = <<>>
    /\ restored = <<>>
    /\ lookup = [k \in {} |-> 0]
    /\ waiting = {}
    /\ pc = "idle"
    /\ result = ""
    /\ src = NoFs
    /\ todo = <<>>

InitSig == InitIdle /\ InitOthers

SpecSig == InitSig /\ [][NextSig]_vars

(***************************************************************************)
(* http.rs: HttpCache.                                                     *)
(***************************************************************************)
\* HeaderValue::to_str: the bytes are visible ASCII, space or tab
ToStr(value) == \A i \in 1..Len(value) : value[i] \in (32..126) \cup {9}

\* the largest u64, in decimal digits
U64Max ==
    <<49, 56, 52, 52, 54, 55, 52, 52, 48, 55, 51, 55, 48, 57, 53, 53, 49, 54, 49, 53>>

\* a number as decimal digits with no zero in front; a u64 is kept as its
\* digits
RECURSIVE Digits(_)
Digits(text) ==
    IF Len(text) > 1 /\ Head(text) = 48 THEN Digits(Tail(text)) ELSE text

\* the first of two numbers of as many digits is the greater
Greater(a, b) ==
    \E i \in 1..Len(a) : a[i] > b[i] /\ \A j \in 1..(i - 1) : a[j] = b[j]

\* str::parse::<u32>, widened
ParseU32(text) ==
    Bind(IF text # <<>> /\ Head(text) = 43 THEN Tail(text) ELSE text, LAMBDA digits :
    IF digits = <<>> \/ (\E i \in 1..Len(digits) : digits[i] \notin 48..57)
    THEN Err("ParseIntError")
    ELSE Bind(Digits(digits), LAMBDA number :
         IF Len(number) > 10
            \/ (Len(number) = 10 /\ Greater(number, <<52, 50, 57, 52, 57, 54, 55, 50, 57, 53>>))
         THEN Err("ParseIntError")
         ELSE [err |-> "", value |-> number]))

\* str::parse::<u64>: decimal digits, at least one, after at most one '+';
\* a number above u64::MAX is an error
ParseU64(text) ==
    Bind(IF text # <<>> /\ Head(text) = 43 THEN Tail(text) ELSE text, LAMBDA digits :
    IF digits = <<>> \/ (\E i \in 1..Len(digits) : digits[i] \notin 48..57)
    THEN Err("ParseIntError")
    ELSE Bind(Digits(digits), LAMBDA number :
         IF Len(number) > Len(U64Max) \/ (Len(number) = Len(U64Max) /\ Greater(number, U64Max))
         THEN Err("ParseIntError")
         ELSE [err |-> "", value |-> number]))

\* zstd::Decoder and tar::Archive over the bodies of the model: the entries
\* of the archive a body holds
Untar(body) ==
    IF body = <<5, 72>>
    THEN <<DirEntry(<<"d", "">>, Oct(7, 5, 5)), FileEntry(<<"d", "f">>, Oct(6, 4, 4), "payload"),
           LinkEntry(<<"l">>, <<"d", "f">>)>>
    ELSE <<FileEntry(<<"f">>, Oct(6, 4, 4), "payload")>>

\* env::current_dir: the process runs in the repo root
CurrentDir == Anchor

\* tar::Entry::unpack of a regular file: what is at the place is removed,
\* the file is created and its mode set from the header
Unpack(f, filename, e) ==
    Bind(Lstat(f, filename), LAMBDA w :
    IF w.st = "err" THEN Fail(f, w.err)
    ELSE IF w.st = "new" THEN Done(Put(f, w.path, FileNode(e.mode, e.body)))
    ELSE Bind(Remove(f, filename), LAMBDA gone :
         IF gone.err # "" THEN gone
         ELSE Done(Put(gone.fs, w.path, FileNode(e.mode, e.body)))))

\* HttpCache::restore_symlink
HttpRestoreSymlink(f, root, e, allow_nonexistent_targets, um) ==
    IF IsAbsolute(e.name) THEN Fail(f, "PathValidationError")
    ELSE Bind(CreateDirAll(f, Parent(Resolve(root, Components(e.name))), um), LAMBDA dir :
         IF dir.err # "" THEN dir
         ELSE IF IsAbsolute(e.link) THEN Fail(dir.fs, "PathValidationError")
         ELSE IF ~Exists(dir.fs, Resolve(root, Components(e.link)))
                 /\ ~allow_nonexistent_targets
         THEN Fail(dir.fs, "LinkTargetDoesNotExist")
         ELSE Bind(IF Lstat(dir.fs, Resolve(root, Components(e.name))).st = "ok"
                   THEN Remove(dir.fs, Resolve(root, Components(e.name)))
                   ELSE dir, LAMBDA gone :
              IF gone.err # "" THEN gone
              ELSE Symlink(gone.fs, <<"">> \o Resolve(root, Components(e.link)),
                           Resolve(root, Components(e.name)))))

\* restore_tar: what the match on the entry type does with one entry
HttpRestoreEntry(f, root, filename, e, um) ==
    IF e.type = "Directory"
    THEN SetDirMode(CreateDirAll(f, filename, um), filename, Oct(7, 7, 5))
    ELSE IF e.type = "Regular"
    THEN Bind(IF Parent(filename) # CurrentDir
              THEN SetDirMode(CreateDirAll(f, Parent(filename), um),
                              Parent(filename), Oct(7, 7, 5))
              ELSE Done(f), LAMBDA dir :
         IF dir.err # "" THEN dir ELSE Unpack(dir.fs, filename, e))
    ELSE IF e.type = "Symlink"
    THEN Bind(HttpRestoreSymlink(f, root, e, FALSE, um), LAMBDA link :
         IF link.err = "LinkTargetDoesNotExist" THEN link ELSE Done(link.fs))
    ELSE Done(f)

\* what restore_tar returns, were a name that repeats an earlier one dropped
UnpackedOnce(f, e, files) ==
    [fs |-> f, err |-> e,
     files |-> IF Len(files) > 1 /\ Last(files) \in {files[i] : i \in 1..(Len(files) - 1)}
               THEN Front(files) ELSE files]

\* what restore_tar returns
Unpacked(f, e, files) == [fs |-> f, err |-> e, files |-> files]

\* restore_tar: the second loop, over the links whose targets were missing
RECURSIVE RestoreMissingLinks(_, _, _, _, _)
RestoreMissingLinks(f, root, missing_links, files, um) ==
    IF missing_links = <<>> THEN Unpacked(f, "", files)
    ELSE Bind(HttpRestoreSymlink(f, root, Head(missing_links), TRUE, um), LAMBDA link :
         IF link.err # "" THEN Unpacked(link.fs, link.err, <<>>)
         ELSE RestoreMissingLinks(link.fs, root, Tail(missing_links), files, um))

\* restore_tar: the first loop, over the entries of the archive
RECURSIVE RestoreTarFrom(_, _, _, _, _, _)
RestoreTarFrom(f, root, entries, files, missing_links, um) ==
    IF entries = <<>> THEN RestoreMissingLinks(f, root, missing_links, files, um)
    ELSE IF IsAbsolute(Head(entries).name) THEN Unpacked(f, "PathValidationError", <<>>)
    ELSE IF ~IsPrefix(root, Resolve(root, Components(Head(entries).name)))
    THEN Unpacked(f, "InvalidFilePath", <<>>)
    ELSE Bind(HttpRestoreEntry(f, root, Resolve(root, Components(Head(entries).name)),
                               Head(entries), um), LAMBDA out :
         IF out.err = "LinkTargetDoesNotExist"
         THEN RestoreTarFrom(out.fs, root, Tail(entries),
                             Append(files, Components(Head(entries).name)),
                             Append(missing_links, Head(entries)), um)
         ELSE IF out.err # "" THEN Unpacked(out.fs, out.err, <<>>)
         ELSE RestoreTarFrom(out.fs, root, Tail(entries),
                             Append(files, Components(Head(entries).name)),
                             missing_links, um))

\* restore_tar
RestoreTar(f, root, body, um) == RestoreTarFrom(f, root, Untar(body), <<>>, <<>>, um)

Retrieved(f, e, files, duration) ==
    [fs |-> f, err |-> e, files |-> files, duration |-> duration]

\* HttpCache::retrieve, from the response of fetch_artifact on
RetrieveOp(f, e, sv, hash, response, um) ==
    Bind(IF ~response.duration.set THEN [err |-> "", value |-> <<48>>]
         ELSE IF ~ToStr(response.duration.value) THEN Err("ToStrError")
         ELSE ParseU64(response.duration.value), LAMBDA duration :
    IF duration.err # "" THEN Retrieved(f, "InvalidDuration", <<>>, <<>>)
    ELSE Bind(IF ~sv.some THEN Ok(TRUE)
              ELSE IF ~response.tag.set THEN Err("ArtifactTagMissing")
              ELSE IF ~ToStr(response.tag.value) THEN Err("InvalidTag")
              ELSE Validate(e, sv.team_id, hash, response.body, response.tag.value),
              LAMBDA is_valid :
         IF is_valid.err # "" THEN Retrieved(f, is_valid.err, <<>>, <<>>)
         ELSE IF ~is_valid.ok THEN Retrieved(f, "InvalidTag", <<>>, <<>>)
         ELSE Bind(RestoreTar(f, Anchor, response.body, um), LAMBDA files :
              IF files.err # "" THEN Retrieved(files.fs, files.err, <<>>, <<>>)
              ELSE Retrieved(files.fs, "", files.files, duration.value))))

\* the entries of the archives restore_tar is given: a directory, a file in
\* it, the same file again, a symlink to it, a symlink with an absolute
\* target, a fifo, and a file named to be above the root
TarEntries ==
    { DirEntry(<<"d", "">>, Oct(7, 5, 5)),
      FileEntry(<<"d", "f">>, Oct(6, 4, 4), "payload"),
      LinkEntry(<<"l">>, <<"d", "f">>),
      LinkEntry(<<"a">>, <<"", "etc">>),
      Entry("Fifo", <<"p">>, Oct(6, 4, 4), "", <<>>),
      FileEntry(<<"..", "x">>, Oct(6, 4, 4), "escaped") }

\* a call of HttpCache::restore_tar on a body that holds the archive
RestoreTarCall ==
    /\ pc = "start"
    /\ Bind(RestoreTarFrom(fs, Anchor, archive, <<>>, <<>>, umask), LAMBDA r :
           /\ fs' = r.fs
           /\ restored' = r.files
           /\ result' = r.err)
    /\ pc' = "done"
    /\ UNCHANGED <<umask, archive, pos, symlinks, lookup, waiting, src, todo>>
    /\ UNCHANGED others

InitTar == InitRestore(TarEntries, MaxEntries, {"me", "other"})

SpecTar == InitTar /\ [][RestoreTarCall]_vars

\* the x-artifact-duration headers of the model: none, numbers, numbers with
\* a sign, the largest u64 and the number after it, and what is no number
Durations ==
    {Unset, Var(<<48>>), Var(<<52, 50>>), Var(<<48, 48, 55>>), Var(<<43, 53>>),
     Var(U64Max), Var(Front(U64Max) \o <<54>>), Var(<<>>), Var(<<45, 49>>),
     Var(<<49, 46, 53>>), Var(<<32, 53>>), Var(<<52, 255>>)}

\* the x-artifact-tag headers of the model: none, bytes that are no text,
\* tags nobody generated, and the tags of the model's keys, teams, hashes
\* and bodies
Tags ==
    {Unset, Var(<<255>>)} \cup {Var(t) : t \in BadTags}
    \cup {Var(GenerateTag(Var(k), t, h, b).tag) :
            k \in Keys, t \in TeamIds, h \in Hashes, b \in Bodies}

Responses == [duration : Durations, tag : Tags, body : Bodies]

\* a call of HttpCache::retrieve
Retrieve ==
    /\ pc = "idle"
    /\ \E hash \in Hashes, response \in Responses :
          Bind(RetrieveOp(fs, env, signer_verifier, hash, response, umask), LAMBDA r :
              /\ fs' = r.fs
              /\ restored' = r.files
              /\ result' = r.err
              /\ call' = [op |-> "retrieve", hash |-> hash, response |-> response,
                          duration |-> r.duration])
    /\ pc' = "done"
    /\ UNCHANGED <<umask, archive, pos, symlinks, lookup, waiting, src, todo>>
    /\ UNCHANGED <<env, signer_verifier, issued>>

\* HttpCache::new with or without an authenticator, in an environment with or
\* without a key
InitHttp ==
    /\ InitIdle
    /\ env \in {Unset} \cup {Var(k) : k \in Keys}
    /\ signer_verifier \in {NoSigner} \cup {New(t) : t \in TeamIds}
    /\ issued = NoTag
    /\ call = NoCall

SpecHttp == InitHttp /\ [][Retrieve]_vars

(***************************************************************************)
(* restore_directory.rs: check_path on the prefixes of a tree with         *)
(* symlinks in it.                                                         *)
(***************************************************************************)
\* the targets of the symlink a: up and out of the anchor, absolute paths
\* outside and inside of it and through it, names in the anchor, itself
LinkTargets ==
    { <<"..">>, <<"..", "x">>, <<"d", "..", "..">>, <<"", "etc">>, <<"", "w">>,
      <<"", "w", "d">>, <<"", "w", "..", "etc">>, <<"", "w", "d", "..">>,
      <<"d">>, <<"b">>, <<"n">>, <<"a">>, <<".", "b">>, <<"d", "..", "b">> }

\* the anchor with a directory d, the symlink a and the symlink b in it
LinkedFs(a, b) ==
    FreshFs("me") @@ (Anchor \o <<"d">> :> DirNode(Oct(7, 5, 5), "me"))
    @@ (Anchor \o <<"a">> :> LinkNode(a)) @@ (Anchor \o <<"b">> :> LinkNode(b))

\* a call of check_path on an anchored path
CheckPathCall ==
    /\ call.op = ""
    /\ \E path \in {<<>>, <<"a">>, <<"d">>, <<"n">>, <<"a", "x">>} :
          call' = [op |-> "check_path", path |-> path,
                   result |-> CheckPath(fs, Anchor, path, MaxCheckDepth)]
    /\ UNCHANGED <<engine, env, signer_verifier, issued>>

InitCheck ==
    /\ \E a \in LinkTargets, b \in {<<"..">>, <<"d">>, <<"", "w", "d">>, <<"a">>} :
          fs = LinkedFs(a, b)
    /\ umask = Oct(0, 2, 2)
    /\ archive = <<>>
    /\ pos = 1
    /\ symlinks = <<>>
    /\ restored = <<>>
    /\ lookup = [k \in {} |-> 0]
    /\ waiting = {}
    /\ pc = "idle"
    /\ result = ""
    /\ src = NoFs
    /\ todo = <<>>
    /\ InitOthers

SpecCheck == InitCheck /\ [][CheckPathCall]_vars

\* archives restored into an anchor that already holds symlinks: files and a
\* directory below the symlink a, a file below the directory d, a symlink
\* whose target is missing
CycleEntries ==
    { FileEntry(<<"a", "x", "y">>, Oct(6, 4, 4), "deep"),
      DirEntry(<<"a", "x", "">>, Oct(7, 5, 5)),
      FileEntry(<<"d", "f">>, Oct(6, 4, 4), "payload"),
      LinkEntry(<<"l">>, <<"n">>) }

\* the symlinks a and b of the anchor lead to the directory d, to each other
\* or to themselves
InitCycle ==
    /\ InitOthers
    /\ \E a \in {<<"a">>, <<"b">>, <<"d">>}, b \in {<<"a">>, <<"b">>, <<"d">>} :
          fs = LinkedFs(a, b)
    /\ umask = Oct(0, 2, 2)
    /\ archive \in Archives(CycleEntries, MaxEntries)
    /\ pos = 1
    /\ symlinks = <<>>
    /\ restored = <<>>
    /\ lookup = [k \in {} |-> 0]
    /\ waiting = {}
    /\ pc = "start"
    /\ result = ""
    /\ src = NoFs
    /\ todo = <<>>

SpecCycle == InitCycle /\ [][Next]_vars

(***************************************************************************)
(* api-client lib.rs: APIClient::fetch_artifact and its preflight.         *)
(* Header values and URLs are sequences of bytes.                          *)
(***************************************************************************)
\* str::to_lowercase on text that to_str has found to be ASCII
ToLowercase(text) ==
    [i \in 1..Len(text) |-> IF text[i] \in 65..90 THEN text[i] + 32 ELSE text[i]]

\* str::contains
Contains(text, pattern) ==
    \E i \in 0..(Len(text) - Len(pattern)) : SubSeq(text, i + 1, i + Len(pattern)) = pattern

\* "authorization"
Authorization == <<97, 117, 116, 104, 111, 114, 105, 122, 97, 116, 105, 111, 110>>

\* Url::parse: an absolute URL starts with a scheme of letters and a colon
UrlParse(text) ==
    \E i \in 2..Len(text) :
        /\ text[i] = 58
        /\ \A j \in 1..(i - 1) : text[j] \in (65..90) \cup (97..122)

\* the OPTIONS request of do_preflight, the GET of fetch_artifact
Request(method, url, authorization) ==
    [method |-> method, url |-> url, authorization |-> authorization]

Bearer(token) == Var(<<66, 101, 97, 114, 101, 114, 32>> \o token)

\* do_preflight once the response is there, comparing the header as it is
DoPreflightCaseSensitive(request_url, response) ==
    IF response.err # "" THEN [err |-> response.err]
    ELSE IF response.location.set /\ ~ToStr(response.location.value)
    THEN [err |-> "InvalidHeader"]
    ELSE IF response.location.set /\ ~UrlParse(response.location.value)
    THEN [err |-> "InvalidUrl"]
    ELSE [err |-> "",
          location |-> IF response.location.set THEN response.location.value
                       ELSE request_url,
          allow_auth |->
              Contains(IF response.allow_headers.set /\ ToStr(response.allow_headers.value)
                       THEN response.allow_headers.value ELSE <<>>,
                       Authorization)]

\* do_preflight once the response is there: the location, and allow_auth
\* from Access-Control-Allow-Headers, which counts as empty when it is
\* missing or when to_str fails on it
DoPreflight(request_url, response) ==
    IF response.err # "" THEN [err |-> response.err]
    ELSE IF response.location.set /\ ~ToStr(response.location.value)
    THEN [err |-> "InvalidHeader"]
    ELSE IF response.location.set /\ ~UrlParse(response.location.value)
    THEN [err |-> "InvalidUrl"]
    ELSE [err |-> "",
          location |-> IF response.location.set THEN response.location.value
                       ELSE request_url,
          allow_auth |->
              Contains(ToLowercase(IF response.allow_headers.set
                                      /\ ToStr(response.allow_headers.value)
                                   THEN response.allow_headers.value ELSE <<>>),
                       Authorization)]

\* fetch_artifact: the requests it sends, the preflight first if there is
\* one, and the error it returns if the preflight fails
FetchArtifactOp(request_url, token, use_preflight, response) ==
    IF ~use_preflight
    THEN [err |-> "", sent |-> <<Request("GET", request_url, Bearer(token))>>]
    ELSE Bind(DoPreflight(request_url, response), LAMBDA preflight_response :
         IF preflight_response.err # ""
         THEN [err |-> preflight_response.err,
               sent |-> <<Request("OPTIONS", request_url, Bearer(token))>>]
         ELSE [err |-> "",
               sent |-> <<Request("OPTIONS", request_url, Bearer(token)),
                          Request("GET", preflight_response.location,
                                  IF preflight_response.allow_auth THEN Bearer(token)
                                  ELSE Unset)>>])

\* the URL of the artifact
ArtifactUrl == <<104, 116, 116, 112, 115, 58, 47, 47, 99, 47, 118, 56, 47, 97, 114, 116, 105, 102, 97, 99, 116, 115, 47, 104>>

\* the Access-Control-Allow-Headers of the model: none, empty, the header
\* name in several cases, inside a list and inside a longer word, other
\* names, and a value with a byte that is no ASCII
AllowHeaders ==
    {Unset, Var(<<>>), Var(Authorization), Var(<<65, 117, 116, 104, 111, 114, 105, 122, 97, 116, 105, 111, 110>>),
     Var(<<65, 85, 84, 72, 79, 82, 73, 90, 65, 84, 73, 79, 78>>),
     Var(<<65, 117, 116, 104, 111, 114, 105, 122, 97, 116, 105, 111, 110, 44, 32, 85, 115, 101, 114, 45, 65, 103, 101, 110, 116>>),
     Var(<<85, 115, 101, 114, 45, 65, 103, 101, 110, 116>>),
     Var(<<88, 45, 65, 117, 116, 104, 111, 114, 105, 122, 97, 116, 105, 111, 110, 45, 73, 100>>),
     Var(<<97, 117, 116, 104, 111, 114, 105, 122, 97, 116, 105, 111>>),
     Var(<<67, 111, 110, 116, 101, 110, 116, 45, 84, 121, 112, 101, 44, 32, 65, 117, 116, 104, 111, 114, 105, 90, 97, 116, 105, 111, 110>>),
     Var(<<65, 117, 116, 104, 111, 114, 105, 122, 97, 116, 105, 111, 110, 44, 32, 252>>)}

\* the preflight responses of the model: none, or one with or without a
\* Location that is a URL, no URL, or no text
PreflightResponses ==
    {[err |-> "ReqwestError"]}
    \cup {[err |-> "", location |-> l, allow_headers |-> a] :
            l \in {Unset, Var(<<104, 116, 116, 112, 115, 58, 47, 47, 100, 47, 104>>), Var(<<98>>), Var(<<255>>)},
            a \in AllowHeaders}

\* a call of fetch_artifact with the arguments and the response drawn
FetchArtifact ==
    /\ call.op = ""
    /\ call' = [op |-> "fetch_artifact", token |-> call.token,
                use_preflight |-> call.use_preflight, response |-> call.response,
                result |-> FetchArtifactOp(ArtifactUrl, call.token, call.use_preflight,
                                           call.response)]
    /\ UNCHANGED <<engine, env, signer_verifier, issued>>

InitApi ==
    /\ InitIdle
    /\ env = Unset
    /\ signer_verifier = NoSigner
    /\ issued = NoTag
    /\ \E token \in {<<116>>, <<117>>}, use_preflight \in BOOLEAN,
          response \in PreflightResponses :
          call = [op |-> "", token |-> token, use_preflight |-> use_preflight,
                  response |-> response]

SpecApi == InitApi /\ [][FetchArtifact]_vars

(***************************************************************************)
(* writer.rs and restore.rs: the files archives are written to and read    *)
(* from.  Here a path is the sequence of its components and a component    *)
(* the sequence of its ASCII codes.                                        *)
(***************************************************************************)
\* Path::ends_with: the last components of the path are the components of
\* the child, each one whole
EndsWith(path, child) ==
    /\ Len(child) <= Len(path)
    /\ SubSeq(path, Len(path) - Len(child) + 1, Len(path)) = child

\* Path::new(".zst"): one component
Zst == << <<46, 122, 115, 116>> >>

\* the paths of archives: in one of two directories, a file name of the
\* characters of ".zst", or x.tar.zst, or x.tar
ArchivePaths ==
    {<<dir, name>> :
        dir \in {<<99>>, <<46, 122, 115, 116>>},
        name \in (UNION {[1..n -> {46, 122, 115, 116}] : n \in 1..MaxName}
                  \cup {<<120, 46, 116, 97, 114, 46, 122, 115, 116>>,
                        <<120, 46, 116, 97, 114>>})
                 \ {<<46>>, <<46, 46>>}}

\* CacheArchive::create, once: the file is created or emptied, and output
\* goes through zstd::Encoder if is_compressed
Create ==
    /\ call.op = ""
    /\ \E path \in ArchivePaths :
          call' = [op |-> "create", path |-> path, err |-> "",
                   is_compressed |-> EndsWith(path, Zst)]
    /\ UNCHANGED <<engine, env, signer_verifier, issued>>

\* CacheReader::open, of the archive created last or of a file that is not
\* there: input goes through zstd::Decoder if is_compressed
OpenArchive ==
    /\ call.op = "create"
    /\ \/ call' = [op |-> "open", path |-> call.path, err |-> "",
                   written_compressed |-> call.is_compressed,
                   is_compressed |-> EndsWith(call.path, Zst)]
       \/ call' = [op |-> "open", path |-> <<call.path[1], <<110>> \o call.path[2]>>,
                   err |-> "ENOENT"]
    /\ UNCHANGED <<engine, env, signer_verifier, issued>>

NextZst == Create \/ OpenArchive

SpecZst == InitSig /\ [][NextZst]_vars

(***************************************************************************)
(* writer.rs: the writers an archive goes through on its way to the file,  *)
(* tar::Builder over zstd::Encoder (if compressed) over BufWriter over     *)
(* File, and what is left in the file when the CacheArchive is dropped:    *)
(* CacheArchive has no method that finishes it.  What is written is the    *)
(* sequence of the names of the entries, "end" for the end-of-archive      *)
(* blocks of tar and "frame end" for the end of the zstd frame.            *)
(***************************************************************************)
\* a write of the builder into the writer under it
WriteThrough(w, item) ==
    IF w.is_compressed THEN [w EXCEPT !.encoder = Append(@, item)]
    ELSE [w EXCEPT !.buffer = Append(@, item)]

\* CacheArchive::create for a path with or without the component .zst at
\* its end: nothing is written yet
CreateWriter ==
    /\ call.op = ""
    /\ \E path \in {<<<<99>>>> \o Zst, <<<<99>>, <<120, 46, 116, 97, 114>>>>} :
          call' = [op |-> "writer", is_compressed |-> EndsWith(path, Zst),
                   added |-> <<>>, encoder |-> <<>>, buffer |-> <<>>, file |-> <<>>]
    /\ UNCHANGED <<engine, env, signer_verifier, issued>>

\* CacheWriter::append, as add_file calls it: the builder writes the entry
WriterAppend ==
    /\ call.op = "writer"
    /\ Len(call.added) < MaxEntries
    /\ \E name \in {"a", "b"} :
          call' = [WriteThrough(call, name) EXCEPT !.added = Append(@, name)]
    /\ UNCHANGED <<engine, env, signer_verifier, issued>>

\* zstd::Encoder passes on what it has compressed, when it has enough of it
EncoderWrites ==
    /\ call.op = "writer"
    /\ call.encoder # <<>>
    /\ call' = [call EXCEPT !.encoder = <<>>, !.buffer = @ \o call.encoder]
    /\ UNCHANGED <<engine, env, signer_verifier, issued>>

\* BufWriter writes its buffer to the file, when the buffer is full
BufWriterWrites ==
    /\ call.op = "writer"
    /\ call.buffer # <<>>
    /\ call' = [call EXCEPT !.buffer = <<>>, !.file = @ \o call.buffer]
    /\ UNCHANGED <<engine, env, signer_verifier, issued>>

\* the CacheArchive goes out of scope: the drop of tar::Builder writes the
\* end-of-archive blocks; the drop of zstd::Encoder writes nothing, so what
\* the encoder holds is lost and the frame is not ended; and the drop of
\* BufWriter writes its buffer to the file
DropArchive ==
    /\ call.op = "writer"
    /\ Bind(WriteThrough(call, "end"), LAMBDA w :
          call' = [w EXCEPT !.op = "dropped", !.encoder = <<>>,
                            !.buffer = <<>>, !.file = @ \o w.buffer])
    /\ UNCHANGED <<engine, env, signer_verifier, issued>>

\* the names of the entries a reader gets from what is in the file
RECURSIVE EntriesOf(_)
EntriesOf(file) ==
    IF file = <<>> \/ Head(file) \in {"end", "frame end"} THEN <<>>
    ELSE <<Head(file)>> \o EntriesOf(Tail(file))

\* CacheReader reads the file: through zstd::Decoder if is_compressed,
\* which fails at the end of a file that holds no end of the frame
ReadArchive ==
    /\ call.op = "dropped"
    /\ call' = [op |-> "read", is_compressed |-> call.is_compressed,
                added |-> call.added, file |-> call.file,
                entries |-> EntriesOf(call.file),
                err |-> IF call.is_compressed
                           /\ \A i \in 1..Len(call.file) : call.file[i] # "frame end"
                        THEN "UnexpectedEof" ELSE ""]
    /\ UNCHANGED <<engine, env, signer_verifier, issued>>

NextFin ==
    \/ CreateWriter
    \/ WriterAppend
    \/ EncoderWrites
    \/ BufWriterWrites
    \/ DropArchive
    \/ ReadArchive

SpecFin == InitSig /\ [][NextFin]_vars

(***************************************************************************)
(* restore.rs: canonicalize_name on the names an archive can hold.         *)
(***************************************************************************)
\* on-wire names: the segments between the slashes, "" where two slashes
\* meet and after a slash that ends the name
Names == UNION {[1..n -> {"", ".", "..", "a", "b"}] : n \in 1..MaxSegments}

\* a call of canonicalize_name on the name drawn
Canonicalize ==
    /\ call.op = ""
    /\ call' = [op |-> "canonicalize_name", name |-> call.name,
                result |-> CanonicalizeName(call.name)]
    /\ UNCHANGED <<engine, env, signer_verifier, issued>>

InitNames ==
    /\ InitIdle
    /\ env = Unset
    /\ signer_verifier = NoSigner
    /\ issued = NoTag
    /\ \E name \in Names : call = [op |-> "", name |-> name]

SpecNames == InitNames /\ [][Canonicalize]_vars

(***************************************************************************)
(* Properties of the signature.                                            *)
(***************************************************************************)
\* the last call validated the tag at hand, which an authenticator generated
Validated == call.op \in {"validate", "validate_tag"} /\ issued.made
SameKey == call.key = issued.key
SameTeam == call.team_id = issued.team_id
SameHash == call.hash = issued.hash
SameBody == call.body = issued.body

\* C11: a tag validates when the key, the team id, the hash and the body are
\* the ones it was generated with, as text by validate and as bytes by
\* validate_tag
C11_TagRoundTrip ==
    (Validated /\ SameKey /\ SameTeam /\ SameHash /\ SameBody) => call.result = Ok(TRUE)

C11_Witness ==
    /\ Validated /\ SameKey /\ SameTeam /\ SameHash /\ SameBody
    /\ call.op = "validate"
    /\ call.result = Ok(TRUE)

Differences ==
    (IF SameKey THEN 0 ELSE 1) + (IF SameTeam THEN 0 ELSE 1)
    + (IF SameHash THEN 0 ELSE 1) + (IF SameBody THEN 0 ELSE 1)

\* the key HMAC works with
KeyOf(e) == PrepareKey(e.value)

\* C12 as stated: with a key in the environment, a tag is rejected when
\* exactly one of the key, the team id, the hash and the body is another
C12_AnyDifferenceRejects ==
    (Validated /\ call.key.set /\ Differences = 1) => call.result = Ok(FALSE)

\* C12: with a key in the environment, a tag is rejected when exactly one of
\* the key, the team id, the hash and the body is another, where a key longer
\* than a block of SHA-256 and the digest HMAC works with in its place are
\* one key; a tag nobody generated that is base64 is rejected and is no error
C12_TamperingRejects ==
    /\ (Validated /\ call.key.set /\ Differences = 1
        /\ (SameKey \/ KeyOf(call.key) # KeyOf(issued.key)))
       => call.result = Ok(FALSE)
    /\ (call.op = "validate" /\ call.key.set /\ ~issued.made
        /\ Base64Decode(issued.tag).err = "")
       => call.result = Ok(FALSE)

C12_Witness ==
    /\ Validated /\ call.key.set
    /\ SameKey /\ ~SameTeam /\ SameHash /\ SameBody
    /\ call.result = Ok(FALSE)

\* C13 as stated: a tag validates under the key that is in the environment
\* at the call if and only if that is the key it was generated under
C13_OtherKeyRejects ==
    (Validated /\ call.key.set /\ SameTeam /\ SameHash /\ SameBody)
    => (call.result = Ok(SameKey))

\* C13: every call works with the key that is in the environment at the
\* call, text or not: a tag validates if and only if that key and the key it
\* was generated under are the same after HMAC has hashed a key longer than
\* a block
C13_KeyIsReadAtEveryCall ==
    (Validated /\ call.key.set /\ SameTeam /\ SameHash /\ SameBody)
    => (call.result = Ok(KeyOf(call.key) = KeyOf(issued.key)))

C13_Witness ==
    /\ Validated /\ SameTeam /\ SameHash /\ SameBody
    /\ issued.key = Var(<<107, 49>>)
    /\ call.key = Var(LongKeyDigest)
    /\ call.result = Ok(FALSE)

\* C14: with no key in the environment every call of generate_tag,
\* generate_tag_bytes, validate and validate_tag fails with
\* NoSignatureSecretKey
C14_NoKeyNoAnswer ==
    (call.op # "" /\ ~call.key.set) => call.result = Err("NoSignatureSecretKey")

C14_Witness ==
    /\ Validated /\ ~call.key.set
    /\ call.result = Err("NoSignatureSecretKey")

(***************************************************************************)
(* Properties of HttpCache::retrieve.                                      *)
(***************************************************************************)
\* nothing is written under the repo root, or anywhere
Untouched == fs = FreshFs("other") /\ restored = <<>>

\* retrieve was called on a cache that has an authenticator
Signed == call.op = "retrieve" /\ signer_verifier.some

\* the x-artifact-tag header is the tag of the hash and the body under the
\* key of the environment
Genuine ==
    /\ env.set
    /\ call.response.tag.set
    /\ call.response.tag.value
       = GenerateTag(env, signer_verifier.team_id, call.hash, call.response.body).tag

\* the x-artifact-duration header is none or one retrieve takes
DurationTaken ==
    \/ ~call.response.duration.set
    \/ /\ ToStr(call.response.duration.value)
       /\ ParseU64(call.response.duration.value).err = ""

\* C15 as stated: with an authenticator and a duration header that is taken,
\* without the tag header the result is ArtifactTagMissing, with a tag that
\* does not verify it is InvalidTag, and nothing is written in both cases
C15_TagErrorsAsStated ==
    (Signed /\ DurationTaken) =>
        /\ ~call.response.tag.set => (result = "ArtifactTagMissing" /\ Untouched)
        /\ (call.response.tag.set /\ ~Genuine) => (result = "InvalidTag" /\ Untouched)

\* C15: with an authenticator, retrieve fails and writes nothing unless the
\* header is the tag of the body; once the duration header is taken, the
\* result is ArtifactTagMissing without the header, InvalidTag with a header
\* that is no text or is the base64 of other bytes, and the error of
\* validate with no key or with a text that is not base64
C15_RestoreOnlyAfterValidation ==
    Signed =>
        /\ ~Genuine => (result # "" /\ Untouched)
        /\ (DurationTaken /\ ~call.response.tag.set) => result = "ArtifactTagMissing"
        /\ (DurationTaken /\ call.response.tag.set /\ ~ToStr(call.response.tag.value))
           => result = "InvalidTag"
        /\ (DurationTaken /\ call.response.tag.set /\ ToStr(call.response.tag.value)
            /\ ~env.set)
           => result = "NoSignatureSecretKey"
        /\ (DurationTaken /\ call.response.tag.set /\ ToStr(call.response.tag.value)
            /\ env.set /\ Base64Decode(call.response.tag.value).err # "")
           => result = "Base64EncodingError"
        /\ (DurationTaken /\ call.response.tag.set /\ ToStr(call.response.tag.value)
            /\ env.set /\ Base64Decode(call.response.tag.value).err = "" /\ ~Genuine)
           => result = "InvalidTag"

C15_Witness ==
    /\ Signed /\ env.set /\ ~Genuine
    /\ call.response.tag.set
    /\ call.response.tag.value \notin BadTags \cup {<<255>>}
    /\ result = "InvalidTag"
    /\ Untouched

\* decimal digits, at least one
IsDecimal(text) == text # <<>> /\ \A i \in 1..Len(text) : text[i] \in 48..57

\* C16 as stated: the duration is 0 without the header and the number of the
\* header when that is a decimal unsigned integer; any other header gives
\* InvalidDuration and nothing is restored
C16_DurationAsStated ==
    call.op = "retrieve" =>
        IF ~call.response.duration.set
        THEN result # "InvalidDuration" /\ (result = "" => call.duration = <<48>>)
        ELSE IF IsDecimal(call.response.duration.value)
        THEN /\ result # "InvalidDuration"
             /\ result = "" => call.duration = Digits(call.response.duration.value)
        ELSE result = "InvalidDuration" /\ Untouched

\* a decimal unsigned integer that is at most u64::MAX, with or without a '+'
\* in front
IsU64(text) ==
    Bind(IF text # <<>> /\ Head(text) = 43 THEN Tail(text) ELSE text, LAMBDA digits :
        /\ IsDecimal(digits)
        /\ \/ Len(Digits(digits)) < Len(U64Max)
           \/ Len(Digits(digits)) = Len(U64Max) /\ ~Greater(Digits(digits), U64Max))

\* the number a text of IsU64 stands for
NumberOf(text) == Digits(IF Head(text) = 43 THEN Tail(text) ELSE text)

\* C16: the duration is 0 without the header and the number of the header
\* when that is a decimal unsigned integer of at most u64::MAX, with or
\* without a '+' in front; any other header gives InvalidDuration and nothing
\* is restored
C16_Duration ==
    call.op = "retrieve" =>
        IF ~call.response.duration.set
        THEN result # "InvalidDuration" /\ (result = "" => call.duration = <<48>>)
        ELSE IF IsU64(call.response.duration.value)
        THEN /\ result # "InvalidDuration"
             /\ result = "" => call.duration = NumberOf(call.response.duration.value)
        ELSE result = "InvalidDuration" /\ Untouched

C16_Witness ==
    /\ call.op = "retrieve"
    /\ call.response.duration = Var(U64Max)
    /\ result = ""
    /\ call.duration = U64Max
    /\ restored # <<>>

(***************************************************************************)
(* Properties of the archive files.                                        *)
(***************************************************************************)
\* the file name of the path ends in ".zst"
HasZstSuffix(path) ==
    /\ Len(Last(path)) >= 4
    /\ SubSeq(Last(path), Len(Last(path)) - 3, Len(Last(path))) = <<46, 122, 115, 116>>

\* C17: create writes through zstd and open reads through zstd exactly when
\* the file name of the path ends in ".zst", and open reads an archive the
\* way create wrote it
C17_CompressedBySuffix ==
    (call.op \in {"create", "open"} /\ call.err = "") =>
        /\ call.is_compressed <=> HasZstSuffix(call.path)
        /\ call.op = "open" => call.is_compressed = call.written_compressed

(***************************************************************************)
(* Properties of canonicalize_name.                                        *)
(***************************************************************************)
Canonicalized == call.op = "canonicalize_name"

\* the name is empty, "." or "..", starts with "/", "./" or "../", or ends
\* with "/." or "/.."
Listed(name) ==
    \/ name = <<"">>
    \/ name = <<".">>
    \/ name = <<"..">>
    \/ Len(name) >= 2 /\ name[1] \in {"", ".", ".."}
    \/ Len(name) >= 2 /\ name[Len(name)] \in {".", ".."}

\* the name without the slashes that end it
RECURSIVE StripTrailing(_)
StripTrailing(name) ==
    IF Len(name) >= 2 /\ name[Len(name)] = ""
    THEN StripTrailing(SubSeq(name, 1, Len(name) - 1))
    ELSE name

\* the name without a slash after a slash and without "." between slashes
RECURSIVE Squeeze(_)
Squeeze(name) ==
    IF name = <<>> THEN <<>>
    ELSE IF Head(name) \in {"", "."} THEN Squeeze(Tail(name))
    ELSE <<Head(name)>> \o Squeeze(Tail(name))

\* C18 as stated: MalformedName exactly for the names listed, and for any
\* other name the name without the slashes that end it, otherwise unchanged
C18_TrailingSlashesOnly ==
    Canonicalized =>
        IF Listed(call.name)
        THEN call.result.err = "MalformedName"
        ELSE call.result = [err |-> "", name |-> StripTrailing(call.name)]

\* C18: MalformedName exactly for the names listed, and for any other name
\* the name without the slashes that end it, without a slash after a slash
\* and without a "." component, otherwise unchanged
C18_CanonicalName ==
    Canonicalized =>
        IF Listed(call.name)
        THEN call.result.err = "MalformedName"
        ELSE call.result = [err |-> "", name |-> Squeeze(StripTrailing(call.name))]

C18_Witness ==
    /\ Canonicalized
    /\ call.name = <<"a", ".", "b", "">>
    /\ call.result = [err |-> "", name |-> <<"a", "b">>]

\* C19: a name canonicalize_name returns is relative and has no "." and no
\* ".." component, and a name with ".." between slashes is malformed
C19_NoDotDot ==
    Canonicalized =>
        /\ call.result.err = ""
           => \A i \in 1..Len(call.result.name) : call.result.name[i] \notin {"", ".", ".."}
        /\ (\E i \in 1..Len(call.name) : call.name[i] = "..")
           => call.result.err = "MalformedName"

(***************************************************************************)
(* Properties of the writer.                                               *)
(***************************************************************************)
\* the file of the tree a header was made from
SourceOf(header) == src[Resolve(Anchor, Components(header.name))]

\* C20: every header add_file appends has 0 as uid, gid, atime, mtime and
\* ctime, and a size that reads as 0 unless the file is a regular file,
\* whoever owns the file and whenever it was modified
C20_DeterministicHeader ==
    \A i \in 1..Len(archive) :
        pc = "write" =>
            /\ archive[i].uid = <<48>>
            /\ archive[i].gid = <<48>>
            /\ archive[i].atime = <<48>>
            /\ archive[i].mtime = <<48>>
            /\ archive[i].ctime = <<48>>
            /\ SourceOf(archive[i]).kind # "file" => archive[i].size \in {<<>>, <<48>>}

C20_Witness ==
    /\ pc = "write"
    /\ \E i \in 1..Len(archive) :
          /\ SourceOf(archive[i]).kind = "dir"
          /\ SourceOf(archive[i]).owner = "me"
          /\ SourceOf(archive[i]).mtime = 7
          /\ archive[i].uid = <<48>>
          /\ archive[i].mtime = <<48>>

\* C21: add_file records a directory as a directory entry with an empty
\* body, a symlink as a symlink entry with the link target and an empty
\* body, and a regular file as a regular entry with the bytes of the file
C21_RecordsLstatKind ==
    \A i \in 1..Len(archive) :
        pc = "write" =>
            /\ SourceOf(archive[i]).kind = "dir"
               => archive[i].type = "Directory" /\ archive[i].body = ""
            /\ SourceOf(archive[i]).kind = "link"
               => /\ archive[i].type = "Symlink"
                  /\ archive[i].link = SourceOf(archive[i]).link
                  /\ archive[i].body = ""
            /\ SourceOf(archive[i]).kind = "file"
               => /\ archive[i].type = "Regular"
                  /\ archive[i].body = SourceOf(archive[i]).body

\* C22: add_file on a source that is no regular file, directory or symlink
\* (a fifo) returns UnsupportedFileType and appends no entry
C22_UnsupportedKindIsRejected ==
    [][(/\ pc = "write"
        /\ todo # <<>>
        /\ src[Resolve(Anchor, Head(todo))].kind = "fifo")
       => (result' = "UnsupportedFileType" /\ archive' = archive)]_vars

\* C23: an archive whose creation is over holds, in this order, the tar
\* end-of-archive and the end of the zstd frame if it is compressed, all of
\* it in the file, and a reader gets every entry that was added
C23_FinalizedInOrder ==
    /\ call.op \in {"dropped", "read"}
       => call.file = call.added \o <<"end">>
                      \o (IF call.is_compressed THEN <<"frame end">> ELSE <<>>)
    /\ call.op = "read" => call.err = "" /\ call.entries = call.added

(***************************************************************************)
(* Properties of fetch_artifact.                                           *)
(***************************************************************************)
\* the artifact GET that was sent, the last request of the call
Fetched ==
    /\ call.op = "fetch_artifact"
    /\ call.result.err = ""

TheGet == call.result.sent[Len(call.result.sent)]

\* the header value holds the word at some place, letters compared without
\* their case
HoldsWord(value, word) ==
    \E i \in 0..(Len(value) - Len(word)) :
        \A k \in 1..Len(word) :
            value[i + k] = word[k] \/ (value[i + k] \in 65..90 /\ value[i + k] + 32 = word[k])

AllowsAuthorization ==
    /\ call.response.allow_headers.set
    /\ HoldsWord(call.response.allow_headers.value, Authorization)

\* C25 as stated: with a preflight the GET carries the bearer token exactly
\* when Access-Control-Allow-Headers of the preflight response holds
\* `authorization` in any case; without a preflight it always carries it
C25_TokenIffAllowed ==
    Fetched =>
        /\ TheGet.method = "GET"
        /\ call.use_preflight
           => (TheGet.authorization = Bearer(call.token) <=> AllowsAuthorization)
        /\ ~call.use_preflight => TheGet.authorization = Bearer(call.token)

\* C25: with a preflight the GET carries the bearer token exactly when
\* Access-Control-Allow-Headers of the preflight response is visible ASCII
\* text that holds `authorization` in any case, and carries no
\* Authorization header otherwise; without a preflight it always carries
\* the token
C25_TokenIffAllowedText ==
    Fetched =>
        /\ TheGet.method = "GET"
        /\ call.use_preflight
           => /\ TheGet.authorization = Bearer(call.token)
                 <=> (AllowsAuthorization /\ ToStr(call.response.allow_headers.value))
              /\ TheGet.authorization \in {Bearer(call.token), Unset}
        /\ ~call.use_preflight => TheGet.authorization = Bearer(call.token)

C25_Witness ==
    /\ Fetched
    /\ call.use_preflight
    /\ AllowsAuthorization
    /\ ~Contains(call.response.allow_headers.value, Authorization)
    /\ TheGet.authorization = Bearer(call.token)

(***************************************************************************)
(* Properties of HttpCache::restore_tar.                                   *)
(***************************************************************************)
TarDone == pc = "done" /\ archive # <<>>

\* C26: restore_tar fails when an entry is no regular file, directory or
\* symlink, and when a symlink cannot be restored for another reason than
\* a missing target (here: its target is absolute, which is refused)
C26_UnsupportedEntryAborts ==
    TarDone /\ result = ""
    => \A i \in 1..Len(archive) :
          /\ archive[i].type \in {"Regular", "Directory", "Symlink"}
          /\ ~(archive[i].type = "Symlink" /\ IsAbsolute(archive[i].link))

\* C27: restore_tar returns InvalidFilePath, and creates nothing, when the
\* first entry's name joined to the root leads outside of the root
C27_EscapingNameIsInvalid ==
    (TarDone /\ ~IsPrefix(Anchor, CleanAbs(Resolve(Anchor, Components(archive[1].name)))))
    => /\ result = "InvalidFilePath"
       /\ DOMAIN fs = {Root, Anchor}

\* C28: on success restore_tar returns the names of the entries, one per
\* entry and in the order of the archive, repeated names repeated
C28_OneNamePerEntry ==
    TarDone /\ result = ""
    => restored = [i \in 1..Len(archive) |-> Components(archive[i].name)]

C28_Witness ==
    /\ TarDone /\ result = ""
    /\ Len(restored) = 3
    /\ restored[2] = restored[3]
    /\ restored[1] # restored[2]

(***************************************************************************)
(* Properties of the safe walk.                                            *)
(***************************************************************************)
\* the directory safe_mkdir_all is called on for the entry: the name of a
\* directory entry, the parent of the name of a file or a symlink
WalkedDirectory(e) ==
    IF e.type = "Directory" THEN CanonicalizeName(e.name).name
    ELSE Parent(CanonicalizeName(e.name).name)

\* the prefixes c1, c1/c2, ..., c1/.../cn of a directory c1/.../cn
EveryPrefix(dir) == [i \in 1..Len(dir) |-> SubSeq(dir, 1, i)]

\* C29: check_path is applied to every prefix of the directory, the
\* directory itself included, before anything is created or chmoded: when
\* check_path refuses one of them, the entry changes nothing on disk
C29_EveryPrefixIsChecked ==
    [][(/\ pc = "entries"
        /\ pos <= Len(archive)
        /\ archive[pos].type \in {"Directory", "Regular", "Symlink"}
        /\ CanonicalizeName(archive[pos].name).err = ""
        /\ FirstError(fs, Anchor, EveryPrefix(WalkedDirectory(archive[pos]))) # "")
       => fs' = fs]_vars

(***************************************************************************)
(* Properties of restore_regular.                                          *)
(***************************************************************************)
\* C31: restoring a regular file leaves the mode of every directory that
\* is there already as it is, the anchor and the parent directory included
C31_ExistingDirectoriesKeepMode ==
    [][(/\ pc = "entries"
        /\ pos <= Len(archive)
        /\ archive[pos].type = "Regular")
       => \A p \in DOMAIN fs :
             (fs[p].kind = "dir" /\ p \in DOMAIN fs') => fs'[p].mode = fs[p].mode]_vars

(***************************************************************************)
(* Properties of check_path.                                               *)
(***************************************************************************)
\* the prefix check_path was called on is a symlink
PrefixIsSymlink ==
    /\ call.op = "check_path"
    /\ Lstat(fs, Resolve(Anchor, call.path)).st = "ok"
    /\ fs[Lstat(fs, Resolve(Anchor, call.path)).path].kind = "link"

TargetOfPrefix == fs[Lstat(fs, Resolve(Anchor, call.path)).path].link

\* the target of the symlink lies under the anchor: as it is when absolute,
\* resolved against the anchor when relative
TargetUnderAnchor ==
    IF IsAbsolute(TargetOfPrefix)
    THEN IsPrefix(Anchor, CleanAbs(Components(TargetOfPrefix)))
    ELSE IsPrefix(Anchor, JoinRelative(Anchor, Components(TargetOfPrefix)))

\* C30: check_path accepts a prefix that does not exist or is no symlink;
\* it accepts a symlink only if its target lies under the anchor, and
\* returns LinkOutsideOfDirectory for every symlink whose target does not
C30_CheckPathKeepsUnderAnchor ==
    /\ (call.op = "check_path" /\ ~PrefixIsSymlink) => call.result = ""
    /\ PrefixIsSymlink
       => /\ call.result = "" => TargetUnderAnchor
          /\ ~TargetUnderAnchor => call.result = "LinkOutsideOfDirectory"

(***************************************************************************)
(* Properties of the first pass of restore.                                *)
(***************************************************************************)
\* what restore_entry returns for the entry the first pass is at
AtEntry == RestoreEntryOp(fs, Anchor, archive[pos], umask)

\* every name restored so far is on disk in the file system f
StillOnDisk(f) ==
    \A i \in 1..Len(restored) : Lstat(f, Resolve(Anchor, restored[i])).st = "ok"

\* C24: in the first pass an entry whose link target is missing is set
\* aside and the pass goes on; on any other error restore returns that
\* error at once, with no later entry processed, no second pass, and what
\* was restored before still on disk; and nothing happens after the return
C24_FirstPassAborts ==
    [][/\ (pc = "entries" /\ pos <= Len(archive))
          => /\ AtEntry.err = "LinkTargetDoesNotExist"
                => pc' = "entries" /\ pos' = pos + 1 /\ fs' = fs
             /\ AtEntry.err \notin {"", "LinkTargetDoesNotExist"}
                => /\ pc' = "done"
                   /\ result' = AtEntry.err
                   /\ pos' = pos
                   /\ restored' = restored
                   /\ waiting' = {}
                   /\ StillOnDisk(fs) => StillOnDisk(fs')
       /\ pc = "done" => FALSE]_vars

C24_Witness ==
    /\ pc = "done"
    /\ result = "UnsupportedFileType"
    /\ restored # <<>>
    /\ pos < Len(archive)
    /\ archive[Len(archive)].type = "Regular"
    /\ Lstat(fs, Resolve(Anchor, CanonicalizeName(archive[Len(archive)].name).name)).st # "ok"

(***************************************************************************)
(* Properties of restore.                                                  *)
(***************************************************************************)
Finished == pc = "done"
Succeeded == pc = "done" /\ result = "Ok"

\* the canonical name of an archive entry, and where it lies below the anchor
NameOf(e) == CanonicalizeName(e.name).name
Plain(name) == \A i \in 1..Len(name) : name[i] # ".."
LocationOf(e) == CleanAbs(Anchor \o NameOf(e))

\* nothing exists outside the anchor but its parent, as it was created
OutsideUntouched ==
    \A p \in DOMAIN fs :
        \/ IsPrefix(Anchor, p)
        \/ p = Root /\ fs[p].kind = "dir" /\ fs[p].mode = Oct(7, 7, 7)

PlainArchive == \A i \in 1..Len(archive) : Plain(archive[i].name)

\* C1: whatever the archive and however restore ends, every path it
\* creates, writes or changes the mode of lies under the anchor: the file
\* system outside the anchor stays as it was (stated for the archives
\* whose entry names hold no ".." at all).
C1_RestoreStaysUnderAnchor == PlainArchive => OutsideUntouched

\* the archive is a symlink whose target leads out of the anchor, followed
\* by an entry whose name has that symlink as a proper prefix
EscapeArchive ==
    /\ Len(archive) = 2
    /\ archive[1].type = "Symlink"
    /\ ~IsPrefix(Anchor, TargetKey(Anchor, archive[1]))
    /\ IsPrefix(NameOf(archive[1]), NameOf(archive[2]))
    /\ NameOf(archive[1]) # NameOf(archive[2])

\* C2: restoring a symlink that points out of the anchor and then an entry
\* below that symlink fails with LinkOutsideOfDirectory, creates the
\* payload nowhere and leaves the anchor's parent unmodified.
C2_TraversalIsRejected ==
    (Finished /\ EscapeArchive) =>
        /\ result = "LinkOutsideOfDirectory"
        /\ \A p \in DOMAIN fs : fs[p].body # archive[2].body \/ archive[2].body = ""
        /\ OutsideUntouched

\* the symlink entries of the archive that bear the name of entry i
SameName(i) ==
    {j \in 1..Len(archive) :
        archive[j].type = "Symlink" /\ archive[j].name = archive[i].name}

\* C3: after a successful restore, a name that several symlink entries
\* bear is a symlink with the target of the last of them, whichever of
\* them the first pass materialised and whichever it deferred.
C3_LastSymlinkWins ==
    Succeeded =>
        \A i \in 1..Len(archive) :
            (/\ archive[i].type = "Symlink"
             /\ Plain(NameOf(archive[i]))
             /\ Cardinality(SameName(i)) > 1
             /\ \A j \in SameName(i) : j <= i)
            => /\ LocationOf(archive[i]) \in DOMAIN fs
               /\ fs[LocationOf(archive[i])].kind = "link"
               /\ fs[LocationOf(archive[i])].link = archive[i].link

\* the edges from the location of each of these symlink entries to the
\* location its target names
LinkEdges(entries) ==
    {<<LocationOf(entries[i]), TargetKey(Anchor, entries[i])>> :
        i \in {j \in 1..Len(entries) : entries[j].type = "Symlink"}}

FirstPassOver == pc = "links" \/ (pc = "done" /\ pos > Len(archive))

\* C4: when the symlinks the first pass deferred form a cycle, a self loop
\* included, restore fails with CycleDetected and the second pass creates
\* and modifies nothing.
C4_DeferredCycleIsDetected ==
    (FirstPassOver /\ HasCycle(LinkEdges(symlinks))) =>
        result = "CycleDetected"

\* some symlink on disk cannot be resolved for a loop
LoopOnDisk ==
    \E p \in DOMAIN fs : fs[p].kind = "link" /\ Stat(fs, p).err = "ELOOP"

\* C5: an archive whose symlink entries contain a cycle never restores
\* successfully, in whatever order its entries come, and a successful
\* restore into an empty anchor leaves no cycle of symlinks on disk.
C5_NoCycleSurvives ==
    Succeeded => ~HasCycle(LinkEdges(archive)) /\ ~LoopOnDisk

\* C7: on success the names restore returns are, as a set, the canonical
\* names of all the entries of the archive.
C7_ReturnsEveryName ==
    Succeeded =>
        {restored[i] : i \in 1..Len(restored)}
            = {NameOf(archive[i]) : i \in 1..Len(archive)}

\* p and all the directories above it are directories, not symlinks
RealDirectory(f, p) ==
    \A i \in 0..Len(p) :
        SubSeq(p, 1, i) \in DOMAIN f /\ f[SubSeq(p, 1, i)].kind = "dir"

\* the name of entry e is occupied by a directory
OccupiedByDirectory(e) ==
    /\ e.type = "Regular"
    /\ WellFormed(e.name)
    /\ Plain(e.name)
    /\ RealDirectory(fs, Anchor \o NameOf(e))

\* nothing at or below p differs between the file systems f and g
SameBelow(f, g, p) ==
    \A q \in DOMAIN f \cup DOMAIN g :
        IsPrefix(p, q) => q \in DOMAIN f /\ q \in DOMAIN g /\ f[q] = g[q]

\* C8: a regular-file entry whose name is a directory when the entry is
\* processed ends restore with the error "Is a directory", and the
\* directory and all it holds are left as they were.
C8_FileOverDirectoryFails ==
    [][(pc = "entries" /\ pos <= Len(archive)
            /\ OccupiedByDirectory(archive[pos]))
        => /\ pc' = "done"
           /\ result' = "EISDIR"
           /\ SameBelow(fs, fs', Anchor \o NameOf(archive[pos]))]_vars

\* restore has ended on a file entry whose name is a directory that holds
\* something
C8_Witness ==
    /\ Finished
    /\ result = "EISDIR"
    /\ pos <= Len(archive)
    /\ OccupiedByDirectory(archive[pos])
    /\ \E p \in DOMAIN fs :
          IsPrefix(Anchor \o NameOf(archive[pos]), p)
              /\ p # Anchor \o NameOf(archive[pos])

\* the archive is symlinks with names of their own, each the target of at
\* most one other, that lead without a cycle to the regular file that the
\* archive ends with
ChainArchive ==
    /\ Len(archive) >= 2
    /\ archive[Len(archive)].type = "Regular"
    /\ \A i \in 1..(Len(archive) - 1) :
          /\ archive[i].type = "Symlink"
          /\ Len(archive[i].name) = 1
          /\ archive[i].name # archive[Len(archive)].name
          /\ \E j \in 1..Len(archive) : j # i /\ archive[j].name = archive[i].link
          /\ \A j \in 1..(Len(archive) - 1) :
                j # i => /\ archive[j].name # archive[i].name
                         /\ archive[j].link # archive[i].link
    /\ ~HasCycle(LinkEdges(archive))

\* the symlink of the chain that no other symlink points to
ChainHead ==
    CHOOSE i \in 1..(Len(archive) - 1) :
        \A j \in 1..(Len(archive) - 1) : archive[j].link # archive[i].name

\* C9: an archive that is a chain of symlinks ending at a regular file
\* listed after them restores successfully: every symlink is on disk with
\* the target stored for it, and the first symlink of the chain resolves
\* to the file and its body.
C9_ChainIsRestored ==
    (Finished /\ ChainArchive) =>
        /\ result = "Ok"
        /\ \A i \in 1..(Len(archive) - 1) :
              /\ LocationOf(archive[i]) \in DOMAIN fs
              /\ fs[LocationOf(archive[i])].kind = "link"
              /\ fs[LocationOf(archive[i])].link = archive[i].link
        /\ Stat(fs, LocationOf(archive[ChainHead])).st = "ok"
        /\ Stat(fs, LocationOf(archive[ChainHead])).path
              = LocationOf(archive[Len(archive)])
        /\ fs[LocationOf(archive[Len(archive)])].kind = "file"
        /\ fs[LocationOf(archive[Len(archive)])].body
              = archive[Len(archive)].body

\* a chain of three symlinks and the file has been restored
C9_Witness == Finished /\ ChainArchive /\ Len(archive) = 4

\* the directory in which the kernel looks up the last component of the
\* name of entry e
DirOf(e) == Stat(fs, Anchor \o Front(NameOf(e)))

\* the name of entry e lies below a symlink that an earlier entry of the
\* archive restored and whose relative target resolves to a directory
\* inside the anchor, where the name is free or a regular file
BelowRestoredLink(e) ==
    /\ e.type = "Regular"
    /\ WellFormed(e.name)
    /\ Plain(e.name)
    /\ Len(NameOf(e)) >= 2
    /\ RealDirectory(fs, Anchor \o Front(Front(NameOf(e))))
    /\ Anchor \o Front(NameOf(e)) \in DOMAIN fs
    /\ fs[Anchor \o Front(NameOf(e))].kind = "link"
    /\ ~IsAbsolute(fs[Anchor \o Front(NameOf(e))].link)
    /\ \E i \in 1..Len(restored) : restored[i] = Front(NameOf(e))
    /\ DirOf(e).st = "ok"
    /\ fs[DirOf(e).path].kind = "dir"
    /\ IsPrefix(Anchor, DirOf(e).path)
    /\ \/ Append(DirOf(e).path, Last(NameOf(e))) \notin DOMAIN fs
       \/ fs[Append(DirOf(e).path, Last(NameOf(e)))].kind = "file"

SameTree(f, g) ==
    \A p \in DOMAIN f \cup DOMAIN g :
        (IsPrefix(Anchor, p) /\ p # Anchor) =>
            /\ p \in DOMAIN f
            /\ p \in DOMAIN g
            /\ f[p].kind = g[p].kind
            /\ f[p].body = g[p].body
            /\ f[p].link = g[p].link
            /\ f[p].mode = g[p].mode

\* C6: adding the names of a tree of files, directories and symlinks with
\* add_file, directories before their contents, and restoring the archive
\* into a fresh anchor reproduces every entry: the same kind, the same
\* contents, the same link target and the same mode bits.
C6_RoundTrip == (Succeeded /\ todo = <<>>) => SameTree(src, fs)

(***************************************************************************)
(* Properties of the order of the entries.                                 *)
(***************************************************************************)
\* restore of an archive without symlinks, from the anchor as it was
RECURSIVE RestoreAll(_, _)
RestoreAll(f, entries) ==
    IF entries = <<>> THEN Done(f)
    ELSE Bind(RestoreEntryOp(f, Anchor, Head(entries), umask), LAMBDA r :
         IF r.err # "" THEN Fail(r.fs, r.err) ELSE RestoreAll(r.fs, Tail(entries)))

\* the orderings of the archive
Orderings ==
    {[i \in 1..Len(archive) |-> archive[order[i]]] :
        order \in {o \in [1..Len(archive) -> 1..Len(archive)] :
                      \A i, j \in 1..Len(archive) : o[i] = o[j] => i = j}}

\* directories and regular files with names that differ from each other
DistinctNames ==
    \A i, j \in 1..Len(archive) :
        Components(archive[i].name) = Components(archive[j].name) => i = j

\* C32: an archive of directories and regular files with distinct names is
\* restored in every order of its entries, and every order leaves the same
\* directories and files with the same contents and modes under the anchor
C32_OrderIndependent ==
    (pc = "done" /\ DistinctNames)
    => /\ result = "Ok"
       /\ \A other \in Orderings :
             /\ RestoreAll(FreshFs(fs[Root].owner), other).err = ""
             /\ SameTree(RestoreAll(FreshFs(fs[Root].owner), other).fs, fs)

(***************************************************************************)
(* Properties of the second pass of restore.                               *)
(***************************************************************************)
\* where the symlink of a deferred entry is created
PlaceOf(e) == CleanAbs(Resolve(Anchor, CanonicalizeName(e.name).name))

\* C33: in the second pass a deferred symlink whose target is the place of
\* another deferred symlink is created after that one
C33_TargetsAreCreatedFirst ==
    [][pc = "links"
       => \A k \in waiting \ waiting' :
             (restored' # restored)
             => \A b \in waiting' : TargetKey(Anchor, lookup[k]) # PlaceOf(lookup[b])]_vars

\* the names returned by the second pass
SecondPassNames == SubSeq(restored, Len(archive) - Len(symlinks) + 1, Len(restored))

\* the first pass is over and the graph of the deferred symlinks has no cycle
SecondPassRan ==
    /\ pc = "done"
    /\ pos > Len(archive)
    /\ ~HasCycle(GraphEdges(Anchor, symlinks))

\* the name of the deferred entry is on disk as a symlink and was returned
\* once by the second pass
CreatedOnce(e) ==
    /\ Lstat(fs, Resolve(Anchor, CanonicalizeName(e.name).name)).st = "ok"
    /\ fs[Lstat(fs, Resolve(Anchor, CanonicalizeName(e.name).name)).path].kind = "link"
    /\ Cardinality({j \in 1..Len(SecondPassNames) :
                       SecondPassNames[j] = CanonicalizeName(e.name).name}) = 1

\* C34: during the first pass every entry passed was either returned or
\* deferred, and when the graph has no cycle and the second pass meets no
\* error every deferred name is on disk as a symlink and was returned once
\* by the second pass
C34_DeferredAreCreated ==
    /\ pc = "entries" => Len(restored) + Len(symlinks) = pos - 1
    /\ (SecondPassRan /\ result = "Ok")
       => \A i \in 1..Len(symlinks) : CreatedOnce(symlinks[i])

\* C35: whenever a step of restore creates or replaces a symlink, the target
\* written to disk is the link name of the entry being restored, as stored
C35_LinkTargetIsVerbatim ==
    [][\A p \in DOMAIN fs' :
          (/\ fs'[p].kind = "link"
           /\ (p \notin DOMAIN fs \/ fs[p] # fs'[p]))
          => IF pc = "entries"
             THEN fs'[p].link = archive[pos].link
             ELSE \E k \in waiting \ waiting' : fs'[p].link = lookup[k].link]_vars

\* both passes have created a symlink below a directory of the anchor, where
\* the canonicalized target is not the stored one
C35_Witness ==
    /\ pc = "done"
    /\ result = "Ok"
    /\ Len(symlinks) > 0
    /\ \E i \in 1..Len(archive) :
          /\ archive[i].type = "Symlink"
          /\ LocationOf(archive[i]) \in DOMAIN fs
          /\ fs[LocationOf(archive[i])].kind = "link"
          /\ fs[LocationOf(archive[i])].link = archive[i].link
          /\ <<"">> \o CanonicalizeLinkname(Anchor, CanonicalizeName(archive[i].name).name,
                                            archive[i].link) # archive[i].link

\* C36: whenever a step of restore creates or replaces a symlink, the
\* permission bits of the symlink are the mode of the entry being restored
C36_SymlinkHasHeaderMode ==
    [][\A p \in DOMAIN fs' :
          (/\ fs'[p].kind = "link"
           /\ (p \notin DOMAIN fs \/ fs[p] # fs'[p]))
          => IF pc = "entries"
             THEN fs'[p].mode = archive[pos].mode
             ELSE \E k \in waiting \ waiting' : fs'[p].mode = lookup[k].mode]_vars

(***************************************************************************)
(* Properties of restore into an anchor with symlinks in it.               *)
(***************************************************************************)
\* C37: restore ends with Ok or with an error it returns: the recursion of
\* check_path over the link targets never outgrows the stack
C37_RestoreReturns == pc = "done" => result # "StackOverflow"

(***************************************************************************)
(* Properties of the graph of the deferred symlinks.                       *)
(***************************************************************************)
\* the edges of the headers that header_lookup keeps: one per source key,
\* that of the last deferred entry with the key
CollapsedEdges ==
    {<<k, TargetKey(Anchor, HeaderLookup(Anchor, symlinks)[k])>> :
        k \in DOMAIN HeaderLookup(Anchor, symlinks)}

\* C38: restore returns CycleDetected only if the graph of the last entry of
\* each deferred name has a cycle
C38_CycleOnlyInCollapsedGraph ==
    (pc = "done" /\ result = "CycleDetected") => HasCycle(CollapsedEdges)

====
